---- MODULE Spec2Model ----
(***************************************************************************)
(* XeroxYT recommendation engine: tokenizer, profile builder, ranker       *)
(* (cosine ranker of part_004 and overlap ranker of utils/xrai.ts), feed   *)
(* mixer and the getXraiRecommendations request (part_001 and part_002).   *)
(*                                                                         *)
(* Numbers are fixed point: profile weights in 1/100, scores in 1/1000,    *)
(* days in 1/1000 day.  A text is a sequence of one-character atoms; a     *)
(* Japanese character is written as an atom such as "<no>".  A video is a  *)
(* reference (an integer) into the heap VideoOf, so that equality of       *)
(* references is object identity and VideoOf(ref).id is the video id.      *)
(***************************************************************************)
EXTENDS Integers, Sequences, FiniteSets, TLC

VARIABLES mix, rank, req, app, pref, feed, api

vars == <<mix, rank, req, app, pref, feed, api>>

(***************************************************************************)
(* Generic helpers                                                         *)
(***************************************************************************)
Range(s) == {s[k] : k \in 1..Len(s)}

Min(a, b) == IF a < b THEN a ELSE b

Max(a, b) == IF a > b THEN a ELSE b

\* Array.prototype.slice(0, n)
Slice(s, n) == SubSeq(s, 1, Min(Len(s), n))

\* Array.prototype.includes / Set.has on a list
Includes(s, x) == \E k \in 1..Len(s) : s[k] = x

\* Array.prototype.flat() on a list of lists
RECURSIVE Flat(_)
Flat(ss) == IF ss = <<>> THEN <<>> ELSE Head(ss) \o Flat(Tail(ss))

\* Array.from(new Set(list)): first occurrences, in order
RECURSIVE Dedupe(_)
Dedupe(s) ==
    IF s = <<>> THEN <<>>
    ELSE LET init == Dedupe(SubSeq(s, 1, Len(s) - 1))
             last == s[Len(s)]
         IN  IF Includes(init, last) THEN init ELSE Append(init, last)

\* floor(sqrt(x)) by bisection
RECURSIVE ISqrtIn(_, _, _)
ISqrtIn(x, lo, hi) ==
    IF lo >= hi THEN lo
    ELSE LET mid == (lo + hi + 1) \div 2
         IN  IF mid * mid <= x THEN ISqrtIn(x, mid, hi) ELSE ISqrtIn(x, lo, mid - 1)

ISqrt(x) == ISqrtIn(x, 0, Min(x, 46340))

(***************************************************************************)
(* Characters and texts                                                    *)
(***************************************************************************)
UpperChars == <<"A", "B", "C", "D", "E", "F", "G", "H", "I", "J", "K", "L", "M",
                "N", "O", "P", "Q", "R", "S", "T", "U", "V", "W", "X", "Y", "Z">>

LowerChars == <<"a", "b", "c", "d", "e", "f", "g", "h", "i", "j", "k", "l", "m",
                "n", "o", "p", "q", "r", "s", "t", "u", "v", "w", "x", "y", "z">>

DigitChars == {"0", "1", "2", "3", "4", "5", "6", "7", "8", "9"}

\* characters of the classes \p{S}, \p{P}, \p{Z}, \p{C} that texts use
SeparatorChars == {" ", "#", "[", "]", "!", "(", ")", "-", "|"}

IsUpper(c) == \E k \in 1..26 : UpperChars[k] = c

IsAsciiAlnum(c) == c \in DigitChars \/ c \in Range(LowerChars) \/ IsUpper(c)

\* Hiragana, Katakana and CJK ideographs are the atoms written "<...>"
IsJapaneseChar(c) == ~IsAsciiAlnum(c) /\ c \notin SeparatorChars

\* String.prototype.toLowerCase, one character
LowerChar(c) == IF IsUpper(c) THEN LowerChars[CHOOSE k \in 1..26 : UpperChars[k] = c] ELSE c

toLowerCase(text) == [k \in 1..Len(text) |-> LowerChar(text[k])]

\* String.prototype.includes
StrIncludes(text, sub) ==
    \E k \in 0..(Len(text) - Len(sub)) : SubSeq(text, k + 1, k + Len(sub)) = sub

\* mutant: the text is split at blanks first and the other separators are
\* replaced by blanks inside the words afterwards
RECURSIVE SplitWords_SplitFirst(_, _)
SplitWords_SplitFirst(text, cur) ==
    IF text = <<>> THEN (IF cur = <<>> THEN <<>> ELSE <<cur>>)
    ELSE IF Head(text) = " "
         THEN (IF cur = <<>> THEN <<>> ELSE <<cur>>) \o SplitWords_SplitFirst(Tail(text), <<>>)
         ELSE SplitWords_SplitFirst(Tail(text),
                  Append(cur, IF Head(text) \in SeparatorChars THEN " " ELSE Head(text)))

\* text.replace(/[\p{S}\p{P}\p{Z}\p{C}]/gu, ' ').split(/\s+/).filter(w => w.length > 0)
RECURSIVE SplitWords(_, _)
SplitWords(text, cur) ==
    IF text = <<>> THEN (IF cur = <<>> THEN <<>> ELSE <<cur>>)
    ELSE IF Head(text) \in SeparatorChars
         THEN (IF cur = <<>> THEN <<>> ELSE <<cur>>) \o SplitWords(Tail(text), <<>>)
         ELSE SplitWords(Tail(text), Append(cur, Head(text)))

STOP_COMMON == {
    <<"<no>">>, <<"<ni>">>, <<"<ha>">>, <<"<wo>">>, <<"<ga>">>, <<"<de>">>,
    <<"<de>", "<su>">>, <<"<ma>", "<su>">>, <<"<ko>", "<to>">>, <<"<mo>", "<no>">>,
    <<"<ko>", "<re>">>, <<"<so>", "<re>">>, <<"<a>", "<re>">>, <<"<i>", "<ru>">>,
    <<"<su>", "<ru>">>, <<"<a>", "<ru>">>, <<"<na>", "<i>">>, <<"<ka>", "<ra>">>,
    <<"<ma>", "<de>">>, <<"<to>">>, <<"<mo>">>, <<"<ya>">>, <<"<na>", "<do>">>,
    <<"<sa>", "<n>">>, <<"<chi>", "<xya>", "<n>">>,
    <<"a","b","o","u","t">>, <<"a","n","d">>, <<"t","h","e">>, <<"t","o">>, <<"a">>,
    <<"o","f">>, <<"i","n">>, <<"f","o","r">>, <<"o","n">>, <<"w","i","t","h">>,
    <<"a","s">>, <<"a","t">>, <<"m","o","v","i","e">>, <<"v","i","d","e","o">> }

\* variant "cosine" is part_004, variant "overlap" is utils/xrai.ts
JAPANESE_STOP_WORDS(variant) ==
    IF variant = "cosine"
    THEN STOP_COMMON \cup { <<"o","f","f","i","c","i","a","l">>,
                            <<"c","h","a","n","n","e","l">>,
                            <<"m","u","s","i","c">>, <<"m","v">>, <<"p","v">> }
    ELSE STOP_COMMON

\* mutant: the stop-word list is not consulted
IsKeyword_NoStopWords(variant, word) ==
    /\ ~(Len(word) <= 1 /\ ~(Len(word) = 1 /\ IsAsciiAlnum(word[1])))
    /\ ~(Len(word) >= 1 /\ \A k \in 1..Len(word) : word[k] \in DigitChars)

IsKeyword(variant, word) ==
    /\ ~(Len(word) <= 1 /\ ~(Len(word) = 1 /\ IsAsciiAlnum(word[1])))
    /\ word \notin JAPANESE_STOP_WORDS(variant)
    /\ ~(Len(word) >= 1 /\ \A k \in 1..Len(word) : word[k] \in DigitChars)

\* extractKeywords, on the branch taken when Intl.Segmenter is absent
extractKeywords(variant, text) ==
    IF text = <<>> THEN <<>>
    ELSE LET words == SplitWords(toLowerCase(text), <<>>)
             IsKw(w) == IsKeyword(variant, w)
         IN  Dedupe(SelectSeq(words, IsKw))

(***************************************************************************)
(* The heap of video objects the catalog provider can return               *)
(***************************************************************************)
W_cat == <<"c", "a", "t">>

W_dog == <<"d", "o", "g">>

W_ch == <<"c", "h">>

W_cooking == <<"c", "o", "o", "k", "i", "n", "g">>

W_pet == <<"p", "e", "t">>

SP == <<" ">>

\* an upload-age text, by what the parser reads of it: whether it is empty,
\* its first run of digits (-1: none) and the unit words it contains
Age(num, units) == [empty |-> FALSE, num |-> num, units |-> units]

NoAge == [empty |-> TRUE, num |-> -1, units |-> {}]

\* a view-count text: its first number (-1: none) and the multiplier marks in it
Views(num, marks) == [empty |-> FALSE, num |-> num, marks |-> marks]

NoViews == [empty |-> TRUE, num |-> -1, marks |-> {}]

BaseVideo == [id |-> 1, channelId |-> 1, channelName |-> W_ch,
              title |-> W_cat \o SP \o W_dog, descriptionSnippet |-> <<>>,
              views |-> Views(1000, {}), uploadedAt |-> Age(30, {"day"})]

\* 1: uploaded 30 days ago; 2: the same video text uploaded 12 hours ago;
\* 3: a second object for id 1; 4: as 2 under another id; 5: upper-case "Bad"
\* in the title; 6: channel 2, no keyword; 7: tokens exactly {cat, dog}; 8: a Japanese
\* title with "bad" inside a word, 1M views, no upload-age text
Catalog == <<
    BaseVideo,
    [BaseVideo EXCEPT !.id = 2, !.uploadedAt = Age(12, {"hour"})],
    BaseVideo,
    [BaseVideo EXCEPT !.id = 3, !.uploadedAt = Age(12, {"hour"})],
    [BaseVideo EXCEPT !.id = 4, !.title = <<"B", "a", "d">> \o SP \o W_cat,
                      !.uploadedAt = Age(2, {"day"})],
    [BaseVideo EXCEPT !.id = 5, !.channelId = 2, !.channelName = <<"<no>">>,
                      !.title = <<"1", " ", "<no>">>, !.uploadedAt = Age(1, {"week"})],
    [BaseVideo EXCEPT !.id = 6, !.channelId = 3, !.channelName = W_dog,
                      !.title = W_cat, !.views = Views(5, {"K"})],
    [BaseVideo EXCEPT !.id = 7, !.title = <<"<neko>", " ", "1", " ", "#", "z", "b", "a", "d", "z">>,
                      !.views = Views(1, {"M"}), !.uploadedAt = NoAge] >>

NumCatalog == Len(Catalog)

\* the references above LongListingBase are the videos of the long recommended
\* listing: one channel each, and otherwise as video 1
LongListingBase == 100

\* the object behind a reference
VideoOf(ref) ==
    IF ref <= NumCatalog THEN Catalog[ref]
    ELSE [BaseVideo EXCEPT !.id = ref, !.channelId = ref]

VideoId(ref) == VideoOf(ref).id

Ids(list) == {VideoId(list[k]) : k \in 1..Len(list)}

\* no two positions of the list hold the same id
DistinctIds(list) ==
    \A j, k \in 1..Len(list) : j # k => VideoId(list[j]) # VideoId(list[k])

(***************************************************************************)
(* buildUserProfile (part_004 lines 87-119, xrai.ts lines 68-98)           *)
(* variant "cosine": part_004, used by part_002;                           *)
(* variant "overlap": utils/xrai.ts, used by part_001                      *)
(***************************************************************************)
\* 1000 * Math.exp(-i / 5), i = 0..29
ExpTau5 == <<
    1000, 819, 670, 549, 449, 368, 301, 247, 202, 165,
    135, 111, 91, 74, 61, 50, 41, 33, 27, 22,
    18, 15, 12, 10, 8, 7, 6, 5, 4, 3 >>

\* 1000 * Math.exp(-i / 8), i = 0..29
ExpTau8 == <<
    1000, 882, 779, 687, 607, 535, 472, 417, 368, 325,
    287, 253, 223, 197, 174, 153, 135, 119, 105, 93,
    82, 72, 64, 56, 50, 44, 39, 34, 30, 27 >>

\* 1000 * Math.exp(-i / 20), i = 0..99
ExpTau20 == <<
    1000, 951, 905, 861, 819, 779, 741, 705, 670, 638,
    607, 577, 549, 522, 497, 472, 449, 427, 407, 387,
    368, 350, 333, 317, 301, 287, 273, 259, 247, 235,
    223, 212, 202, 192, 183, 174, 165, 157, 150, 142,
    135, 129, 122, 116, 111, 105, 100, 95, 91, 86,
    82, 78, 74, 71, 67, 64, 61, 58, 55, 52,
    50, 47, 45, 43, 41, 39, 37, 35, 33, 32,
    30, 29, 27, 26, 25, 24, 22, 21, 20, 19,
    18, 17, 17, 16, 15, 14, 14, 13, 12, 12,
    11, 11, 10, 10, 9, 9, 8, 8, 7, 7 >>

SEARCH_LIMIT == 30

WATCH_LIMIT == 100

\* weight of the search term at index i, in 1/100
SearchWeight(variant, i) ==
    IF variant = "cosine" THEN (100 * ExpTau5[i + 1]) \div 100
    ELSE (80 * ExpTau8[i + 1]) \div 100

\* mutant: a watched video weighted as a search term
WatchWeight_AsSearch(variant, i) == SearchWeight(variant, i)

\* weight of the watched video at index i, in 1/100
WatchWeight(variant, i) ==
    IF variant = "cosine" THEN (50 * ExpTau20[i + 1]) \div 100
    ELSE (40 * ExpTau20[i + 1]) \div 100

\* weight of a subscribed channel, in 1/100
SubscriptionWeight(variant) == IF variant = "cosine" THEN 400 ELSE 300

\* a Map<string, number> is the list of its entries in insertion order
MapHas(map, key) == \E k \in 1..Len(map) : map[k].key = key

MapGet(map, key) == map[CHOOSE k \in 1..Len(map) : map[k].key = key].val

\* keywords.set(kw, (keywords.get(kw) || 0) + weight)
MapAdd(map, key, weight) ==
    IF MapHas(map, key)
    THEN [k \in 1..Len(map) |->
             IF map[k].key = key THEN [key |-> key, val |-> map[k].val + weight]
             ELSE map[k]]
    ELSE Append(map, [key |-> key, val |-> weight])

RECURSIVE MapAddAll(_, _, _)
MapAddAll(map, kws, weight) ==
    IF kws = <<>> THEN map
    ELSE MapAddAll(MapAdd(map, Head(kws), weight), Tail(kws), weight)

addKeywords(variant, map, text, weight) ==
    MapAddAll(map, extractKeywords(variant, text), weight)

\* forEach over the terms at the indexes lo .. hi - 1, in index order
RECURSIVE AddSearchHistory(_, _, _, _, _)
AddSearchHistory(variant, map, terms, lo, hi) ==
    IF lo >= hi THEN map
    ELSE IF hi = lo + 1
    THEN addKeywords(variant, map, terms[lo + 1], SearchWeight(variant, lo))
    ELSE LET mid == (lo + hi) \div 2
             front == AddSearchHistory(variant, map, terms, lo, mid)
         IN  IF Len(front) >= Len(map)
             THEN AddSearchHistory(variant, front, terms, mid, hi)
             ELSE front

\* forEach over the videos at the indexes lo .. hi - 1, in index order
RECURSIVE AddWatchHistory(_, _, _, _, _)
AddWatchHistory(variant, map, videos, lo, hi) ==
    IF lo >= hi THEN map
    ELSE IF hi = lo + 1
    THEN LET weight == WatchWeight(variant, lo)
             video == VideoOf(videos[lo + 1])
             withTitle == addKeywords(variant, map, video.title, weight)
         IN  addKeywords(variant, withTitle, video.channelName, (weight * 15) \div 10)
    ELSE LET mid == (lo + hi) \div 2
             front == AddWatchHistory(variant, map, videos, lo, mid)
         IN  IF Len(front) >= Len(map)
             THEN AddWatchHistory(variant, front, videos, mid, hi)
             ELSE front

\* mutant: only the first subscribed channel is counted
AddSubscriptions_FirstOnly(variant, map, channels) ==
    IF channels = <<>> THEN map
    ELSE addKeywords(variant, map, Head(channels).name, SubscriptionWeight(variant))

RECURSIVE AddSubscriptions(_, _, _)
AddSubscriptions(variant, map, channels) ==
    IF channels = <<>> THEN map
    ELSE AddSubscriptions(variant,
             addKeywords(variant, map, Head(channels).name, SubscriptionWeight(variant)),
             Tail(channels))

RECURSIVE SumSq(_)
SumSq(map) == IF map = <<>> THEN 0 ELSE Head(map).val * Head(map).val + SumSq(Tail(map))

RECURSIVE SumVal(_)
SumVal(map) == IF map = <<>> THEN 0 ELSE Head(map).val + SumVal(Tail(map))

\* mutant: the values summed without squaring
calculateMagnitudeSq_NoSquare(map) == SumVal(map)

\* calculateMagnitude, kept squared: magnitude = Math.sqrt(calculateMagnitudeSq)
calculateMagnitudeSq(map) == SumSq(map)

buildUserProfile(variant, sources) ==
    LET terms == Slice(sources.searchHistory, SEARCH_LIMIT)
        videos == Slice(sources.watchHistory, WATCH_LIMIT)
        s1 == AddSearchHistory(variant, <<>>, terms, 0, Len(terms))
        s2 == AddWatchHistory(variant, s1, videos, 0, Len(videos))
        s3 == AddSubscriptions(variant, s2, sources.subscribedChannels)
    IN  [keywords |-> s3, magnitudeSq |-> calculateMagnitudeSq(s3)]

(***************************************************************************)
(* Parsing helpers (part_004 lines 133-161, xrai.ts lines 102-130)         *)
(***************************************************************************)
\* the "old" sentinel, in 1/1000 day
OldSentinel(variant) == IF variant = "cosine" THEN 365000 ELSE 999000

\* parseUploadedAtDays / parseUploadedAt, in 1/1000 day
parseUploadedAt(variant, t) ==
    IF t.empty THEN OldSentinel(variant)
    ELSE LET num == IF t.num >= 0 THEN t.num ELSE 0
         IN  IF "minute" \in t.units THEN (IF variant = "cosine" THEN 1 ELSE 0)
             ELSE IF "hour" \in t.units
                  THEN (IF variant = "cosine" THEN (num * 1000) \div 24 ELSE 100)
             ELSE IF "day" \in t.units THEN num * 1000
             ELSE IF "week" \in t.units THEN num * 7000
             ELSE IF "month" \in t.units THEN num * 30000
             ELSE IF "year" \in t.units THEN num * 365000
             ELSE OldSentinel(variant)

parseViews(t) ==
    IF t.empty THEN 0
    ELSE LET mult == IF "man" \in t.marks THEN 10000
                     ELSE IF "oku" \in t.marks THEN 100000000
                     ELSE IF "K" \in t.marks THEN 1000
                     ELSE IF "M" \in t.marks THEN 1000000
                     ELSE IF "B" \in t.marks THEN 1000000000
                     ELSE 1
         IN  IF t.num < 0 THEN 0 ELSE t.num * mult

\* floor(100 * Math.log10(x)), x = 1..99
Log10Tab == <<
    0, 30, 47, 60, 69, 77, 84, 90, 95, 100,
    104, 107, 111, 114, 117, 120, 123, 125, 127, 130,
    132, 134, 136, 138, 139, 141, 143, 144, 146, 147,
    149, 150, 151, 153, 154, 155, 156, 157, 159, 160,
    161, 162, 163, 164, 165, 166, 167, 168, 169, 169,
    170, 171, 172, 173, 174, 174, 175, 176, 177, 177,
    178, 179, 179, 180, 181, 181, 182, 183, 183, 184,
    185, 185, 186, 186, 187, 188, 188, 189, 189, 190,
    190, 191, 191, 192, 192, 193, 193, 194, 194, 195,
    195, 196, 196, 197, 197, 198, 198, 199, 199 >>

\* Math.log10(x) in 1/100 for an integer x >= 1, from its two leading digits
RECURSIVE Log10C(_)
Log10C(x) == IF x < 100 THEN Log10Tab[x] ELSE 100 + Log10C(x \div 10)

\* Math.log2(x) in 1/100: log10(x) / log10(2)
Log2C(x) == (Log10C(x) * 1000) \div 301

(***************************************************************************)
(* rankVideos (part_004 lines 165-282, xrai.ts lines 134-236)              *)
(***************************************************************************)
\* `${title} ${channelName} ${descriptionSnippet || ''}`.toLowerCase()
fullText(video) ==
    toLowerCase(video.title \o SP \o video.channelName \o SP \o video.descriptionSnippet)

\* mutant: the NG keyword compared without lower-casing it
HitsNgKeyword_CaseSensitive(video, ngKeywords) ==
    \E k \in 1..Len(ngKeywords) : StrIncludes(fullText(video), ngKeywords[k])

\* context.ngKeywords.some(ng => fullText.includes(ng.toLowerCase()))
HitsNgKeyword(video, ngKeywords) ==
    \E k \in 1..Len(ngKeywords) : StrIncludes(fullText(video), toLowerCase(ngKeywords[k]))

\* the two hard filters and the guard on a missing id
RankSkips(video, ctx) ==
    \/ video.id = 0
    \/ HitsNgKeyword(video, ctx.ngKeywords)
    \/ Includes(ctx.ngChannels, video.channelId)

\* seenIds.has(video.id)
IsWatched(ctx, id) == \E k \in 1..Len(ctx.watchHistory) : VideoId(ctx.watchHistory[k]) = id

containsJapanese(text) == \E k \in 1..Len(text) : IsJapaneseChar(text[k])

\* sum of the profile weights of the video keywords the profile has, in 1/100
RECURSIVE dotProduct(_, _)
dotProduct(profile, kws) ==
    IF kws = <<>> THEN 0
    ELSE (IF MapHas(profile.keywords, Head(kws)) THEN MapGet(profile.keywords, Head(kws)) ELSE 0)
         + dotProduct(profile, Tail(kws))

\* cosineSimilarity in 1/10000: dot / (magnitude * sqrt(videoVectorMagSq))
cosineSimilarity(profile, kws) ==
    IF profile.magnitudeSq > 0 /\ Len(kws) > 0
    THEN (dotProduct(profile, kws) * 10000) \div ISqrt(profile.magnitudeSq * Len(kws))
    ELSE 0

\* Math.random() in 1/1000
RandomDraws == {0, 999}

\* the jitter factor in 1/1000: 0.95 + random * 0.1, resp. 1 + (random - 0.5) * 0.15
JitterFactor(variant, rnd) ==
    IF variant = "cosine" THEN 950 + (rnd * 100) \div 1000
    ELSE 1000 + ((rnd - 500) * 150) \div 1000

\* the factor applied to a watched video, in 1/100
HistoryPenalty(variant, mode) ==
    IF variant = "cosine" THEN 1
    ELSE IF mode = "discovery" THEN 1 ELSE 20

RELEVANCE_FLOOR == 5

\* mutant: the freshness boosts in reverse order
CosineBaseScore_BoostReversed(video, profile, ctx, mode) ==
    LET kws == extractKeywords("cosine", fullText(video))
        relevanceBase == cosineSimilarity(profile, kws) * 10
        daysAgo == parseUploadedAt("cosine", video.uploadedAt)
        views == parseViews(video.views)
        velocity == (views * 1000) \div Max(daysAgo, 100)
        velocityScore == Log10C(velocity + 1)
        freshnessBoost == IF daysAgo < 1000 THEN 10 ELSE IF daysAgo < 3000 THEN 15 ELSE 20
        historyBoost == IF /\ video.channelId # 0
                           /\ \E k \in 1..Len(ctx.watchHistory) :
                                 VideoOf(ctx.watchHistory[k]).channelId = video.channelId
                        THEN 13 ELSE 10
    IN  IF mode = "discovery"
        THEN IF relevanceBase > RELEVANCE_FLOOR * 1000
             THEN (((relevanceBase * (100 + velocityScore \div 2)) \div 100) * freshnessBoost) \div 10
             ELSE relevanceBase
        ELSE (relevanceBase * historyBoost) \div 10

\* mutant: no relevance floor in discovery mode
CosineBaseScore_NoFloor(video, profile, ctx, mode) ==
    LET kws == extractKeywords("cosine", fullText(video))
        relevanceBase == cosineSimilarity(profile, kws) * 10
        daysAgo == parseUploadedAt("cosine", video.uploadedAt)
        views == parseViews(video.views)
        velocity == (views * 1000) \div Max(daysAgo, 100)
        velocityScore == Log10C(velocity + 1)
        freshnessBoost == IF daysAgo < 1000 THEN 20 ELSE IF daysAgo < 3000 THEN 15 ELSE 10
        historyBoost == IF /\ video.channelId # 0
                           /\ \E k \in 1..Len(ctx.watchHistory) :
                                 VideoOf(ctx.watchHistory[k]).channelId = video.channelId
                        THEN 13 ELSE 10
    IN  IF mode = "discovery"
        THEN (((relevanceBase * (100 + velocityScore \div 2)) \div 100) * freshnessBoost) \div 10
        ELSE (relevanceBase * historyBoost) \div 10

\* the score before history penalty, language penalty and jitter, in 1/1000 (part_004)
CosineBaseScore(video, profile, ctx, mode) ==
    LET kws == extractKeywords("cosine", fullText(video))
        relevanceBase == cosineSimilarity(profile, kws) * 10
        daysAgo == parseUploadedAt("cosine", video.uploadedAt)
        views == parseViews(video.views)
        velocity == (views * 1000) \div Max(daysAgo, 100)
        velocityScore == Log10C(velocity + 1)
        freshnessBoost == IF daysAgo < 1000 THEN 20 ELSE IF daysAgo < 3000 THEN 15 ELSE 10
        historyBoost == IF /\ video.channelId # 0
                           /\ \E k \in 1..Len(ctx.watchHistory) :
                                 VideoOf(ctx.watchHistory[k]).channelId = video.channelId
                        THEN 13 ELSE 10
    IN  IF mode = "discovery"
        THEN IF relevanceBase > RELEVANCE_FLOOR * 1000
             THEN (((relevanceBase * (100 + velocityScore \div 2)) \div 100) * freshnessBoost) \div 10
             ELSE relevanceBase
        ELSE (relevanceBase * historyBoost) \div 10

CosineScore(video, profile, ctx, mode, rnd) ==
    LET base == CosineBaseScore(video, profile, ctx, mode)
        penalised == IF IsWatched(ctx, video.id)
                     THEN (base * HistoryPenalty("cosine", mode)) \div 100 ELSE base
        languagePenalty == IF containsJapanese(fullText(video)) THEN 100 ELSE 5
    IN  ((((penalised * languagePenalty) \div 100)) * JitterFactor("cosine", rnd)) \div 1000

\* the weighted sum of relevance, popularity and freshness, in 1/1000 (xrai.ts)
OverlapBaseScore(video, profile, mode) ==
    LET kws == extractKeywords("overlap", fullText(video))
        dot == dotProduct(profile, kws)
        relevanceScore == IF Len(kws) > 0 THEN (dot * 10000) \div ISqrt(Len(kws) * 1000000)
                          ELSE dot * 10
        popularityScore == Log10C(parseViews(video.views) + 1)
        daysAgo == parseUploadedAt("overlap", video.uploadedAt)
        freshnessScore == IF daysAgo <= 1000 THEN 1500
                          ELSE IF daysAgo <= 3000 THEN 1000
                          ELSE IF daysAgo <= 7000 THEN 500
                          ELSE Max(0, 500 - Log2C(daysAgo \div 1000))
    IN  IF mode = "discovery"
        THEN relevanceScore * 2 + popularityScore * 15 + freshnessScore * 30
        ELSE relevanceScore * 4 + popularityScore * 5 + freshnessScore * 5

OverlapScore(video, profile, ctx, mode, rnd) ==
    LET jittered == (OverlapBaseScore(video, profile, mode) * JitterFactor("overlap", rnd)) \div 1000
    IN  IF IsWatched(ctx, video.id)
        THEN (jittered * HistoryPenalty("overlap", mode)) \div 100 ELSE jittered

\* finalScore of one video, in 1/1000
ScoreVideo(variant, video, profile, ctx, mode, rnd) ==
    IF variant = "cosine" THEN CosineScore(video, profile, ctx, mode, rnd)
    ELSE OverlapScore(video, profile, ctx, mode, rnd)

\* one iteration of the scoring loop: the video is skipped or scored and pushed
ScoreStep(variant, scored, ref, profile, ctx, mode, rnd) ==
    IF RankSkips(VideoOf(ref), ctx) THEN scored
    ELSE Append(scored, [video |-> ref, rnd |-> rnd,
                         score |-> ScoreVideo(variant, VideoOf(ref), profile, ctx, mode, rnd)])

\* x placed behind the entries of a descending list that score at least as much
InsertDescending(front, x) ==
    LET p == Cardinality({k \in 1..Len(front) : front[k].score >= x.score})
    IN  SubSeq(front, 1, p) \o <<x>> \o SubSeq(front, p + 1, Len(front))

\* the entries lo..hi inserted one after the other, in order
RECURSIVE InsertRange(_, _, _, _)
InsertRange(front, scored, lo, hi) ==
    IF lo > hi THEN front
    ELSE IF lo = hi THEN InsertDescending(front, scored[lo])
    ELSE LET mid == (lo + hi) \div 2
             sofar == InsertRange(front, scored, lo, mid)
         IN  IF Len(sofar) >= Len(front)
             THEN InsertRange(sofar, scored, mid + 1, hi) ELSE sofar

\* scoredVideos.sort((a, b) => b.score - a.score): stable, descending
SortDescending(scored) == InsertRange(<<>>, scored, 1, Len(scored))

\* mutant: one more video per channel than the cap
MAX_PER_CHANNEL_OffByOne(variant, mode) ==
    IF variant = "cosine" THEN (IF mode = "discovery" THEN 2 ELSE 4)
    ELSE (IF mode = "discovery" THEN 3 ELSE 5)

MAX_PER_CHANNEL(variant, mode) ==
    IF variant = "cosine" THEN (IF mode = "discovery" THEN 1 ELSE 3)
    ELSE (IF mode = "discovery" THEN 2 ELSE 4)

ChannelCount(list, channelId) ==
    Cardinality({k \in 1..Len(list) : VideoOf(list[k]).channelId = channelId})

\* mutant: an admitted video is put at the front of the list
DiversityStep_Prepend(out, ref, cap) ==
    IF ChannelCount(out, VideoOf(ref).channelId) < cap THEN <<ref>> \o out ELSE out

\* one iteration of the diversity walk
DiversityStep(out, ref, cap) ==
    IF ChannelCount(out, VideoOf(ref).channelId) < cap THEN Append(out, ref) ELSE out

\* the iterations lo..hi of the diversity walk
RECURSIVE DiversityRange(_, _, _, _, _)
DiversityRange(sorted, out, cap, lo, hi) ==
    IF lo > hi THEN out
    ELSE IF lo = hi THEN DiversityStep(out, sorted[lo].video, cap)
    ELSE LET mid == (lo + hi) \div 2
             sofar == DiversityRange(sorted, out, cap, lo, mid)
         IN  IF Len(sofar) >= Len(out)
             THEN DiversityRange(sorted, sofar, cap, mid + 1, hi) ELSE sofar

\* the diversity walk over the sorted list
DiversityFilter(sorted, out, cap) == DiversityRange(sorted, out, cap, 1, Len(sorted))

\* the iterations lo..hi of the scoring loop
RECURSIVE ScoreRange(_, _, _, _, _, _, _, _, _)
ScoreRange(variant, scored, videos, profile, ctx, mode, rnds, lo, hi) ==
    IF lo > hi THEN scored
    ELSE IF lo = hi
         THEN ScoreStep(variant, scored, videos[lo], profile, ctx, mode, rnds[lo])
    ELSE LET mid == (lo + hi) \div 2
             sofar == ScoreRange(variant, scored, videos, profile, ctx, mode, rnds, lo, mid)
         IN  IF Len(sofar) >= Len(scored)
             THEN ScoreRange(variant, sofar, videos, profile, ctx, mode, rnds, mid + 1, hi)
             ELSE sofar

\* rankVideos as a function; rnds[k] is the random draw for videos[k]
rankVideos(variant, videos, profile, ctx, mode, rnds) ==
    DiversityFilter(
        SortDescending(ScoreRange(variant, <<>>, videos, profile, ctx, mode, rnds,
                                  1, Len(videos))),
        <<>>, MAX_PER_CHANNEL(variant, mode))

(***************************************************************************)
(* mixFeeds (part_001 lines 46-95, part_002 lines 33-75: the same code)    *)
(***************************************************************************)
MaxMixLen == 3

NumMixRefs == 3

\* discoveryRatio as num/den
Ratios == {<<13, 20>>, <<1, 2>>, <<1, 4>>}

MixStart(A, B, num, den) ==
    [discoveryList |-> A, comfortList |-> B, num |-> num, den |-> den,
     idxA |-> 0, idxB |-> 0, i |-> 0, result |-> <<>>, seenIds |-> {},
     origin |-> <<>>, pc |-> "loop"]

MixIdle == [MixStart(<<>>, <<>>, 13, 20) EXCEPT !.pc = "idle"]

\* mutant: every emitted item counted
currentCountA_All(m) == Len(m.result)

\* result.filter(v => discoveryList.includes(v)).length
currentCountA(m) ==
    Cardinality({k \in 1..Len(m.result) : Includes(m.discoveryList, m.result[k])})

\* mutant: the ratio test alone, also when a pool is exhausted
pickFromA_RatioOnly(m) ==
    currentCountA(m) * m.den < m.num * (Len(m.result) + 1)

\* mutant: the ratio taken over the items emitted so far, without the + 1
pickFromA_NotPredictive(m) ==
    IF m.idxA < Len(m.discoveryList) /\ m.idxB < Len(m.comfortList)
    THEN currentCountA(m) * m.den < m.num * Len(m.result)
    ELSE m.idxA < Len(m.discoveryList)

pickFromA(m) ==
    IF m.idxA < Len(m.discoveryList) /\ m.idxB < Len(m.comfortList)
    THEN currentCountA(m) * m.den < m.num * (Len(m.result) + 1)
    ELSE m.idxA < Len(m.discoveryList)

\* mutant: the seenIds test left out
MixAdmits_NoSeenTest(m, candidate) == TRUE

\* whether the candidate is new: !seenIds.has(candidate.id)
MixAdmits(m, candidate) == VideoId(candidate) \notin m.seenIds

\* mutant: an admitted candidate is put at the front of the result
MixIter_Unshift(m) ==
    LET fromA == pickFromA(m) /\ m.idxA < Len(m.discoveryList)
        fromB == ~fromA /\ m.idxB < Len(m.comfortList)
        taken == [m EXCEPT !.i = m.i + 1,
                           !.idxA = IF fromA THEN m.idxA + 1 ELSE m.idxA,
                           !.idxB = IF fromB THEN m.idxB + 1 ELSE m.idxB]
        candidate == IF fromA THEN m.discoveryList[m.idxA + 1]
                     ELSE m.comfortList[m.idxB + 1]
    IN  IF (fromA \/ fromB) /\ MixAdmits(m, candidate)
        THEN [taken EXCEPT !.seenIds = m.seenIds \cup {VideoId(candidate)},
                           !.result = <<candidate>> \o m.result,
                           !.origin = <<IF fromA THEN "A" ELSE "B">> \o m.origin]
        ELSE taken

\* one iteration of the for loop; origin records the pool of each emitted item
MixIter(m) ==
    LET fromA == pickFromA(m) /\ m.idxA < Len(m.discoveryList)
        fromB == ~fromA /\ m.idxB < Len(m.comfortList)
        taken == [m EXCEPT !.i = m.i + 1,
                           !.idxA = IF fromA THEN m.idxA + 1 ELSE m.idxA,
                           !.idxB = IF fromB THEN m.idxB + 1 ELSE m.idxB]
        candidate == IF fromA THEN m.discoveryList[m.idxA + 1]
                     ELSE m.comfortList[m.idxB + 1]
    IN  IF (fromA \/ fromB) /\ MixAdmits(m, candidate)
        THEN [taken EXCEPT !.seenIds = m.seenIds \cup {VideoId(candidate)},
                           !.result = Append(m.result, candidate),
                           !.origin = Append(m.origin, IF fromA THEN "A" ELSE "B")]
        ELSE taken

MixTotalLength(m) == Len(m.discoveryList) + Len(m.comfortList)

\* n iterations of the for loop
RECURSIVE MixRun(_, _)
MixRun(m, n) ==
    IF n = 0 \/ m.i >= MixTotalLength(m) THEN m
    ELSE IF n = 1 THEN MixIter(m)
    ELSE MixRun(MixRun(m, n \div 2), n - (n \div 2))

\* mixFeeds as a function
mixFeeds(A, B, num, den) ==
    MixRun(MixStart(A, B, num, den), Len(A) + Len(B)).result

LongMixA == 14

LongMixB == 8

\* a ranked pool of n videos with ids of their own, from the given ref on
RankedPool(first, n) == [k \in 1..n |-> first + k]

MixLists == UNION {[1..n -> 1..NumMixRefs] : n \in 0..MaxMixLen}

MixStep ==
    /\ mix.pc = "loop"
    /\ mix.i < MixTotalLength(mix)
    /\ mix' = MixIter(mix)
    /\ UNCHANGED <<rank, req, app, pref, feed, api>>

MixReturn ==
    /\ mix.pc = "loop"
    /\ mix.i >= MixTotalLength(mix)
    /\ mix' = [mix EXCEPT !.pc = "done"]
    /\ UNCHANGED <<rank, req, app, pref, feed, api>>

(***************************************************************************)
(* The users: history, subscriptions and NG lists                          *)
(***************************************************************************)
\* a user without any signal
ColdUser ==
    [searchHistory |-> <<>>, watchHistory |-> <<>>, subscribedChannels |-> <<>>,
     ngKeywords |-> <<>>, ngChannels |-> <<>>]

\* one subscription named "cat dog"; NG keyword "bAd", NG channel 2
SubscriberUser ==
    [searchHistory |-> <<>>, watchHistory |-> <<>>,
     subscribedChannels |-> <<[id |-> 3, name |-> W_cat \o SP \o W_dog]>>,
     ngKeywords |-> << <<"b", "A", "d">> >>, ngChannels |-> <<2>>]

\* searched "cat" and watched video 4 (id 3)
WatcherUser ==
    [searchHistory |-> <<W_cat>>, watchHistory |-> <<4>>, subscribedChannels |-> <<>>,
     ngKeywords |-> <<>>, ngChannels |-> <<>>]

Users == {ColdUser, SubscriberUser, WatcherUser}

\* searched "pet" last and "cat" fourteen searches earlier, digits in between:
\* "cat" weighs 10 * exp(-14 / 5), about 0.06 of "pet"
SearcherUser ==
    [searchHistory |-> [k \in 1..15 |-> IF k = 1 THEN W_pet
                                        ELSE IF k = 15 THEN W_cat ELSE <<"1">>],
     watchHistory |-> <<>>, subscribedChannels |-> <<>>,
     ngKeywords |-> <<>>, ngChannels |-> <<>>]

ScoringContext(user) ==
    [ngKeywords |-> user.ngKeywords, ngChannels |-> user.ngChannels,
     watchHistory |-> user.watchHistory]

Variants == {"cosine", "overlap"}

\* context.mode; "none" is a context without mode
Modes == {"discovery", "comfort", "none"}

(***************************************************************************)
(* getXraiRecommendations (part_001 lines 99-241, part_002 lines 79-213)   *)
(* engine "p1": part_001 with the overlap ranker of utils/xrai.ts;         *)
(* engine "p2": part_002 with the cosine ranker of part_004                *)
(***************************************************************************)
Engines == {"p1", "p2"}

VariantOf(engine) == IF engine = "p1" THEN "overlap" ELSE "cosine"

\* mutant: one item more than the maximum
FEED_LIMIT_OneMore(engine) == IF engine = "p1" THEN 151 ELSE 101

\* finalFeed.slice(0, 150) resp. finalFeed.slice(0, 100)
FEED_LIMIT(engine) == IF engine = "p1" THEN 150 ELSE 100

\* entries sorted by weight, descending and stable, then their keys
RECURSIVE SortByWeight(_)
SortByWeight(map) ==
    IF map = <<>> THEN <<>>
    ELSE LET front == SortByWeight(SubSeq(map, 1, Len(map) - 1))
             x == map[Len(map)]
             p == Cardinality({k \in 1..Len(front) : front[k].val >= x.val})
         IN  SubSeq(front, 1, p) \o <<x>> \o SubSeq(front, p + 1, Len(front))

weightedKeywords(profile) ==
    LET sorted == SortByWeight(profile.keywords)
    IN  [k \in 1..Len(sorted) |-> sorted[k].key]

\* inferTopInterests(profile, limit)
inferTopInterests(profile, limit) == Slice(weightedKeywords(profile), limit)

\* the terms the Discovery searches are built from
TopKeywords(engine, profile, preferredGenres) ==
    IF engine = "p1"
    THEN Slice(Dedupe(preferredGenres \o weightedKeywords(profile)), 12)
    ELSE Slice(Dedupe(preferredGenres \o inferTopInterests(profile, 8)), 6)

ChunkSize(engine) == IF engine = "p1" THEN 3 ELSE 2

\* mutant: the window advances by one item instead of by its size
RECURSIVE chunkArray_StepOne(_, _)
chunkArray_StepOne(array, size) ==
    IF array = <<>> THEN <<>>
    ELSE <<Slice(array, size)>> \o chunkArray_StepOne(Tail(array), size)

\* chunkArray(array, size), and the pairs loop of part_002
RECURSIVE chunkArray(_, _)
chunkArray(array, size) ==
    IF array = <<>> THEN <<>>
    ELSE <<Slice(array, size)>> \o chunkArray(SubSeq(array, size + 1, Len(array)), size)

\* a catalog fetch: its pool, the call, whether a .catch(() => []) follows,
\* the slice applied to the list and its settlement; at is its place in the
\* order in which the fetches of the request settled
Fetch(pool, call, terms, caught, limit) ==
    [pool |-> pool, call |-> call, terms |-> terms, caught |-> caught, limit |-> limit,
     state |-> "pending", failed |-> FALSE, value |-> <<>>, at |-> 0]

\* the number of fetches that have settled
NumSettled(fetches) == Cardinality({k \in 1..Len(fetches) : fetches[k].state # "pending"})

SearchFetches(chunks) ==
    [k \in 1..Len(chunks) |-> Fetch("A", "search", chunks[k], TRUE, 0)]

\* A-2 of part_001: the trending search on page 1, the recommended listing later
TrendingFetches(engine, topKeywords, page) ==
    IF engine = "p1"
    THEN (IF page = 1 THEN <<Fetch("A", "trending", <<>>, TRUE, 0)>>
          ELSE <<Fetch("A", "recommended", <<>>, TRUE, 0)>>)
    ELSE (IF topKeywords = <<>> /\ page = 1
          THEN <<Fetch("A", "trending", <<>>, TRUE, 0)>> ELSE <<>>)

HISTORY_WINDOW(engine) == IF engine = "p1" THEN 5 ELSE 8

SUBS_SAMPLE(engine) == IF engine = "p1" THEN 2 ELSE 3

CHANNEL_SLICE(engine) == IF engine = "p1" THEN 8 ELSE 10

\* getVideoDetails of the video picked in the recent window
RelatedFetches(watchHistory, pick) ==
    IF Len(watchHistory) > 0
    THEN <<Fetch("B", "related", <<VideoId(watchHistory[pick])>>, TRUE, 0)>>
    ELSE <<>>

\* getChannelVideos of the first channels of the shuffled subscriptions
ChannelFetches(engine, shuffled) ==
    LET sample == Slice(shuffled, SUBS_SAMPLE(engine))
    IN  [k \in 1..Len(sample) |->
            Fetch("B", "channel", <<sample[k].id>>, TRUE, CHANNEL_SLICE(engine))]

\* the fallback getRecommendedVideos() call: no .catch() follows it
FallbackFetches(engine, user, topKeywords, others) ==
    IF (IF engine = "p1"
        THEN user.watchHistory = <<>> /\ user.subscribedChannels = <<>> /\ topKeywords = <<>>
        ELSE others = <<>>)
    THEN <<Fetch("A", "fallback", <<>>, FALSE, 0)>>
    ELSE <<>>

\* every fetch the request issues before its await, Discovery first
PlanFetches(engine, user, preferredGenres, page, pick, shuffled) ==
    LET profile == buildUserProfile(VariantOf(engine), user)
        topKeywords == TopKeywords(engine, profile, preferredGenres)
        planned == SearchFetches(chunkArray(topKeywords, ChunkSize(engine)))
                   \o TrendingFetches(engine, topKeywords, page)
                   \o RelatedFetches(user.watchHistory, pick)
                   \o ChannelFetches(engine, shuffled)
    IN  planned \o FallbackFetches(engine, user, topKeywords, planned)

\* the permutations of a list: the outcomes of shuffleArray
Shuffles(list) ==
    {[k \in 1..Len(list) |-> list[f[k]]] :
        f \in {g \in [1..Len(list) -> 1..Len(list)] :
                  \A a, b \in 1..Len(list) : a # b => g[a] # g[b]}}

\* mutant: the values of a pool in the order in which its fetches settled
RawPool_SettleOrder(fetches, pool) ==
    LET OfPool(f) == f.pool = pool
        mine == SelectSeq(fetches, OfPool)
        Place(k) == Cardinality({j \in 1..Len(mine) : mine[j].at <= mine[k].at})
    IN  Flat([p \in 1..Len(mine) |->
                 mine[CHOOSE k \in 1..Len(mine) : Place(k) = p].value])

\* the values of the fulfilled fetches of a pool, in push order, flattened
RawPool(fetches, pool) ==
    LET OfPool(f) == f.pool = pool
        mine == SelectSeq(fetches, OfPool)
    IN  Flat([k \in 1..Len(mine) |-> mine[k].value])

\* Array.from(new Map(list.map(v => [v.id, v])).values()): an id keeps the
\* position of its first object and the object that came last
UniqueById(list) ==
    LET positions == [k \in 1..Len(list) |-> k]
        IsFirst(k) == \A j \in 1..(k - 1) : VideoId(list[j]) # VideoId(list[k])
        firsts == SelectSeq(positions, IsFirst)
        LastOf(id) == CHOOSE k \in 1..Len(list) :
                          /\ VideoId(list[k]) = id
                          /\ \A j \in (k + 1)..Len(list) : VideoId(list[j]) # id
    IN  [p \in 1..Len(firsts) |-> list[LastOf(VideoId(list[firsts[p]]))]]

\* mutant: Comfort kept as it is
FilterComfort_Keep(uniqueComfort, uniqueDiscovery) == uniqueComfort

\* uniqueComfort.filter(v => !discoveryIds.has(v.id))
FilterComfort(uniqueComfort, uniqueDiscovery) ==
    LET NotInDiscovery(v) == VideoId(v) \notin Ids(uniqueDiscovery)
    IN  SelectSeq(uniqueComfort, NotInDiscovery)

(***************************************************************************)
(* Idle values of the machines a specification does not run                *)
(***************************************************************************)
RankIdle == [pc |-> "idle"]

ReqIdle == [pc |-> "idle"]

AppIdle == [pc |-> "idle"]

PrefIdle == [pc |-> "idle"]

FeedIdle == [pc |-> "idle"]

ApiIdle == [pc |-> "idle"]

(***************************************************************************)
(* SpecRank: rankVideos on a pool, a profile and a scoring context         *)
(***************************************************************************)
MaxPool == 5

RECURSIVE Ascending(_)
Ascending(S) ==
    IF S = {} THEN <<>>
    ELSE LET lo == CHOOSE x \in S : \A y \in S : x <= y
         IN  <<lo>> \o Ascending(S \ {lo})

RankPools == {Ascending(S) : S \in {T \in SUBSET (1..NumCatalog) : Cardinality(T) <= MaxPool}}

RankStart(variant, mode, videos, user) ==
    [pc |-> "score", variant |-> variant, mode |-> mode, videos |-> videos,
     profile |-> buildUserProfile(variant, user), context |-> ScoringContext(user),
     k |-> 0, scoredVideos |-> <<>>, finalRankedList |-> <<>>]

InitRank ==
    /\ \/ \E variant \in Variants, mode \in Modes, videos \in RankPools, user \in Users :
              rank = RankStart(variant, mode, videos, user)
       \/ \E variant \in Variants, mode \in Modes :
              rank = RankStart(variant, mode, <<1, 2, 7>>, SearcherUser)
    /\ mix = MixIdle
    /\ req = ReqIdle
    /\ app = AppIdle
    /\ pref = PrefIdle
    /\ feed = FeedIdle
    /\ api = ApiIdle

\* one iteration of "for (const video of videos)", with its Math.random() draw
RankScore ==
    /\ rank.pc = "score"
    /\ rank.k < Len(rank.videos)
    /\ \E rnd \in RandomDraws :
           rank' = [rank EXCEPT
                      !.k = rank.k + 1,
                      !.scoredVideos = ScoreStep(rank.variant, rank.scoredVideos,
                                                 rank.videos[rank.k + 1], rank.profile,
                                                 rank.context, rank.mode, rnd)]
    /\ UNCHANGED <<mix, req, app, pref, feed, api>>

\* the sort and the diversity filter, up to the return
RankFinish ==
    /\ rank.pc = "score"
    /\ rank.k = Len(rank.videos)
    /\ LET sorted == SortDescending(rank.scoredVideos)
       IN  rank' = [rank EXCEPT
                      !.pc = "done",
                      !.scoredVideos = sorted,
                      !.finalRankedList = DiversityFilter(sorted, <<>>,
                                              MAX_PER_CHANNEL(rank.variant, rank.mode))]
    /\ UNCHANGED <<mix, req, app, pref, feed, api>>

NextRank == RankScore \/ RankFinish

SpecRank == InitRank /\ [][NextRank]_vars

\* the score stored for a scored video
ScoredEntry(ref) ==
    rank.scoredVideos[CHOOSE k \in 1..Len(rank.scoredVideos) : rank.scoredVideos[k].video = ref]

IsScored(ref) == \E k \in 1..Len(rank.scoredVideos) : rank.scoredVideos[k].video = ref

Position(list, x) == CHOOSE k \in 1..Len(list) : list[k] = x

\* C4: no channel id occurs in the returned list more often than the cap of the
\* ranker and mode: 1 (cosine) or 2 (overlap) in discovery, 3 resp. 4 otherwise
RankDiversityCap ==
    rank.pc = "done" =>
        \A ref \in Range(rank.finalRankedList) :
            ChannelCount(rank.finalRankedList, VideoOf(ref).channelId)
                <= (IF rank.mode = "discovery"
                    THEN (IF rank.variant = "cosine" THEN 1 ELSE 2)
                    ELSE (IF rank.variant = "cosine" THEN 3 ELSE 4))

\* C4 witness: the overlap ranker without mode scored five videos of channel 1
\* and returned four of them
RankCapReached ==
    /\ rank.pc = "done"
    /\ rank.variant = "overlap" /\ rank.mode = "none"
    /\ Cardinality({k \in 1..Len(rank.scoredVideos) :
                       VideoOf(rank.scoredVideos[k].video).channelId = 1}) = 5
    /\ ChannelCount(rank.finalRankedList, 1) = 4

\* C5: no scored or returned video is of an NG channel or has a lower-cased
\* title + channel name + description that contains a lower-cased NG keyword
RankHardFilters ==
    rank.pc \in {"score", "done"} =>
        \A ref \in Range(rank.finalRankedList)
                   \cup {rank.scoredVideos[k].video : k \in 1..Len(rank.scoredVideos)} :
            /\ ~Includes(rank.context.ngChannels, VideoOf(ref).channelId)
            /\ \A n \in 1..Len(rank.context.ngKeywords) :
                   ~StrIncludes(fullText(VideoOf(ref)), toLowerCase(rank.context.ngKeywords[n]))

\* C5 witness: with NG keyword "bAd" and NG channel 2, the pool held the video
\* titled "Bad cat", a video of channel 2 and one with "zbadz"; only video 7 was returned
RankFilteredOut ==
    /\ rank.pc = "done"
    /\ rank.context.ngKeywords = << <<"b", "A", "d">> >>
    /\ rank.videos = <<5, 6, 7, 8>>
    /\ rank.finalRankedList = <<7>>

\* a and b are the same video but for id and upload age
SameButIdAndAge(a, b) ==
    [VideoOf(a) EXCEPT !.id = 0, !.uploadedAt = NoAge]
        = [VideoOf(b) EXCEPT !.id = 0, !.uploadedAt = NoAge]

\* watched score / non-watched score in 1/1000 under the draw rnd, in the given mode
WatchedRatio(mode, w, u, rnd) ==
    LET sw == ScoreVideo(rank.variant, VideoOf(w), rank.profile, rank.context, mode, rnd)
        su == ScoreVideo(rank.variant, VideoOf(u), rank.profile, rank.context, mode, rnd)
    IN  (sw * 1000) \div su

\* C8: for a watched and a non-watched video that differ in the id only, scored
\* with one draw, watched/non-watched is strictly smaller in discovery mode
\* than in comfort mode
RankHistoryPenaltyStricterInDiscovery ==
    rank.pc = "done" =>
        \A w, u \in Range(rank.videos) :
            (/\ IsScored(w) /\ IsScored(u)
             /\ VideoOf(w).id # VideoOf(u).id
             /\ [VideoOf(w) EXCEPT !.id = 0] = [VideoOf(u) EXCEPT !.id = 0]
             /\ IsWatched(rank.context, VideoOf(w).id)
             /\ ~IsWatched(rank.context, VideoOf(u).id)
             /\ ScoredEntry(w).rnd = ScoredEntry(u).rnd
             /\ ScoredEntry(u).score > 0
             /\ rank.mode \in {"discovery", "comfort"})
            => LET rnd == ScoredEntry(u).rnd
                   here == (ScoredEntry(w).score * 1000) \div ScoredEntry(u).score
               IN  IF rank.mode = "discovery"
                   THEN here < WatchedRatio("comfort", w, u, rnd)
                   ELSE WatchedRatio("discovery", w, u, rnd) < here

\* the precondition of C9: fresh was uploaded 12 hours ago, old 30 days ago, and
\* they are otherwise the same video with the same watch status
FreshAndOld(fresh, old) ==
    /\ VideoOf(fresh).uploadedAt = Age(12, {"hour"})
    /\ VideoOf(old).uploadedAt = Age(30, {"day"})
    /\ SameButIdAndAge(fresh, old)
    /\ IsWatched(rank.context, VideoOf(fresh).id) = IsWatched(rank.context, VideoOf(old).id)
    /\ IsScored(fresh) /\ IsScored(old)

\* the older video is not placed ahead of the fresher one in the returned list
NotAhead(old, fresh) ==
    Includes(rank.finalRankedList, old) =>
        /\ Includes(rank.finalRankedList, fresh)
        /\ Position(rank.finalRankedList, fresh) < Position(rank.finalRankedList, old)

\* C9 as claimed: in discovery mode the older of two such videos is never placed
\* ahead of the fresher one, for every profile and every pair of draws
RankFresherNeverBehind ==
    (rank.pc = "done" /\ rank.mode = "discovery") =>
        \A fresh, old \in Range(rank.videos) :
            FreshAndOld(fresh, old) => NotAhead(old, fresh)

\* relevanceBase of a video under the cosine ranker, in 1/1000
RelevanceBase(ref) ==
    cosineSimilarity(rank.profile, extractKeywords("cosine", fullText(VideoOf(ref)))) * 10

\* C9 amended: in discovery mode the older one is never placed ahead of the
\* fresher one when, in the cosine ranker, their relevance is above the floor
\* of 5 (any two draws), and, in the overlap ranker, both got the same draw
RankFresherAheadAboveFloor ==
    (rank.pc = "done" /\ rank.mode = "discovery") =>
        \A fresh, old \in Range(rank.videos) :
            (/\ FreshAndOld(fresh, old)
             /\ IF rank.variant = "cosine"
                THEN RelevanceBase(fresh) > 5000
                ELSE ScoredEntry(fresh).rnd = ScoredEntry(old).rnd)
            => NotAhead(old, fresh)

\* C9 witness: the cosine ranker in discovery mode scored the old video with the
\* high draw and the fresh one with the low draw, relevance above the floor,
\* and returned the fresh one
RankFreshWonAgainstJitter ==
    /\ rank.pc = "done" /\ rank.mode = "discovery" /\ rank.variant = "cosine"
    /\ rank.videos = <<1, 2>>
    /\ RelevanceBase(2) > 5000
    /\ ScoredEntry(1).rnd = 999 /\ ScoredEntry(2).rnd = 0
    /\ rank.finalRankedList = <<2>>

\* the keywords of the profile, as a set
ProfileKeys(profile) == {profile.keywords[k].key : k \in 1..Len(profile.keywords)}

ViewTexts == {NoViews, Views(1000, {}), Views(1, {"M"})}

AgeTexts == {NoAge, Age(12, {"hour"}), Age(30, {"day"})}

\* C19: in discovery mode of the cosine ranker a scored candidate whose
\* relevance is at or below 5 has the score it would have with any other view
\* count and upload age under the same draw, two such candidates that differ
\* in id and upload age only score the same under equal draws, and the score
\* is at most 5 * 1.05
RankFloorIgnoresVelocity ==
    (rank.pc = "done" /\ rank.variant = "cosine" /\ rank.mode = "discovery") =>
        \A ref \in Range(rank.videos) :
            (IsScored(ref) /\ RelevanceBase(ref) <= 5000) =>
                /\ \A views \in ViewTexts, age \in AgeTexts :
                       ScoreVideo("cosine",
                                  [VideoOf(ref) EXCEPT !.views = views, !.uploadedAt = age],
                                  rank.profile, rank.context, "discovery",
                                  ScoredEntry(ref).rnd)
                           = ScoredEntry(ref).score
                /\ \A other \in Range(rank.videos) :
                       (/\ IsScored(other) /\ SameButIdAndAge(ref, other)
                        /\ IsWatched(rank.context, VideoOf(ref).id)
                               = IsWatched(rank.context, VideoOf(other).id)
                        /\ ScoredEntry(other).rnd = ScoredEntry(ref).rnd)
                       => ScoredEntry(other).score = ScoredEntry(ref).score
                /\ ScoredEntry(ref).score <= 5250

\* C19 witness: for the profile of SearcherUser the videos 1 (30 days old) and
\* 2 (12 hours old) have a relevance between 0 and 5 and, under one draw, the
\* same positive score
RankBelowFloorScoredAlike ==
    /\ rank.pc = "done" /\ rank.variant = "cosine" /\ rank.mode = "discovery"
    /\ rank.videos = <<1, 2, 7>>
    /\ RelevanceBase(1) > 0 /\ RelevanceBase(1) <= 5000
    /\ ScoredEntry(1).rnd = ScoredEntry(2).rnd
    /\ ScoredEntry(1).score = ScoredEntry(2).score
    /\ ScoredEntry(1).score > 0

\* the positions of the sorted list with fewer than cap earlier positions of
\* the same channel
WithinCap(sorted, cap) ==
    {k \in 1..Len(sorted) :
        Cardinality({j \in 1..(k - 1) :
                        VideoOf(sorted[j].video).channelId = VideoOf(sorted[k].video).channelId})
            < cap}

\* C24: the returned list is the sorted list of the filter survivors (scores
\* descending) restricted, in order, to the positions that have fewer than cap
\* earlier positions of the same channel
RankOutputIsCappedSubsequence ==
    rank.pc = "done" =>
        LET sorted == rank.scoredVideos
            final == rank.finalRankedList
            kept == WithinCap(sorted, MAX_PER_CHANNEL(rank.variant, rank.mode))
            survivors == SelectSeq(rank.videos, LAMBDA ref : ~RankSkips(VideoOf(ref), rank.context))
        IN  /\ Len(sorted) = Len(survivors)
            /\ \A ref \in Range(survivors) :
                   Cardinality({k \in 1..Len(sorted) : sorted[k].video = ref})
                       = Cardinality({k \in 1..Len(survivors) : survivors[k] = ref})
            /\ \A j, k \in 1..Len(sorted) : j < k => sorted[j].score >= sorted[k].score
            /\ Len(final) = Cardinality(kept)
            /\ \A n \in 1..Len(final) :
                   final[n] = sorted[CHOOSE k \in kept :
                                        Cardinality({j \in kept : j <= k}) = n].video

\* C24 witness: a survivor was left out and a survivor of another channel
\* with a strictly lower score was returned after two or more others
RankOmittedAboveAdmitted ==
    /\ rank.pc = "done"
    /\ Len(rank.finalRankedList) >= 3
    /\ \E j, k \in 1..Len(rank.scoredVideos) :
           /\ j < k
           /\ rank.scoredVideos[j].score > rank.scoredVideos[k].score
           /\ rank.scoredVideos[j].video \notin Range(rank.finalRankedList)
           /\ rank.finalRankedList[Len(rank.finalRankedList)] = rank.scoredVideos[k].video

(***************************************************************************)
(* SpecReq: one getXraiRecommendations request against a catalog provider  *)
(***************************************************************************)
\* the lists the provider answers with: ids 1 twice in the first, id 1 in both
Responses == {<<1, 2, 3>>, <<3, 5, 7>>}

LongListingSize == 151

\* the recommended listing of the provider from page LongPage on
LongListing == [k \in 1..LongListingSize |-> LongListingBase + k]

LongPage == 3

ResponsesTo(fetch, page) ==
    IF fetch.call \in {"recommended", "fallback"} /\ page >= LongPage
    THEN {LongListing} ELSE Responses

GenreChoices == {<<>>, <<W_dog>>}

\* the draws of one rankVideos call: all low, all high, alternating
JitterPatterns == {"low", "high", "alternating"}

Draws(pattern, n) ==
    [k \in 1..n |-> IF pattern = "low" THEN 0
                    ELSE IF pattern = "high" THEN 999
                    ELSE IF k % 2 = 1 THEN 0 ELSE 999]

ReqStart(engine, user, preferredGenres, page) ==
    [pc |-> "start", engine |-> engine, user |-> user,
     preferredGenres |-> preferredGenres, page |-> page, fetches |-> <<>>,
     uniqueDiscovery |-> <<>>, filteredComfort |-> <<>>,
     rankedDiscovery |-> <<>>, rankedComfort |-> <<>>,
     finalFeed |-> <<>>, returned |-> <<>>]

InitReq ==
    /\ \/ \E engine \in Engines, user \in Users, genres \in GenreChoices, page \in 1..2 :
             req = ReqStart(engine, user, genres, page)
       \/ \E engine \in Engines : req = ReqStart(engine, ColdUser, <<>>, LongPage)
    /\ mix = MixIdle
    /\ rank = RankIdle
    /\ app = AppIdle
    /\ pref = PrefIdle
    /\ feed = FeedIdle
    /\ api = ApiIdle

\* the synchronous part up to the await: the profile is built and every fetch
\* of both pools is issued, with the random pick and the shuffle
ReqIssue ==
    /\ req.pc = "start"
    /\ \E pick \in 1..Max(1, Min(Len(req.user.watchHistory), HISTORY_WINDOW(req.engine))),
          shuffled \in Shuffles(req.user.subscribedChannels) :
           req' = [req EXCEPT
                     !.pc = "fetching",
                     !.fetches = PlanFetches(req.engine, req.user, req.preferredGenres,
                                             req.page, pick, shuffled)]
    /\ UNCHANGED <<mix, rank, app, pref, feed, api>>

\* a pending fetch is answered; the .then() keeps the list (sliced for a channel)
FetchSucceed ==
    /\ req.pc = "fetching"
    /\ \E k \in 1..Len(req.fetches) :
         /\ req.fetches[k].state = "pending"
         /\ \E videos \in ResponsesTo(req.fetches[k], req.page) :
              req' = [req EXCEPT
                        !.fetches[k].state = "fulfilled",
                        !.fetches[k].at = NumSettled(req.fetches) + 1,
                        !.fetches[k].value = IF req.fetches[k].limit > 0
                                             THEN Slice(videos, req.fetches[k].limit)
                                             ELSE videos]
    /\ UNCHANGED <<mix, rank, app, pref, feed, api>>

\* mutant: a fetch that fails is issued once more
FetchFail_Retry ==
    /\ req.pc = "fetching"
    /\ \E k \in 1..Len(req.fetches) :
         /\ req.fetches[k].state = "pending"
         /\ req' = [req EXCEPT
                      !.fetches = IF Len(req.fetches) < 6
                                  THEN Append([req.fetches EXCEPT
                                                  ![k].failed = TRUE,
                                                  ![k].at = NumSettled(req.fetches) + 1,
                                                  ![k].state = "fulfilled"],
                                              req.fetches[k])
                                  ELSE [req.fetches EXCEPT
                                           ![k].failed = TRUE,
                                           ![k].at = NumSettled(req.fetches) + 1,
                                           ![k].state = "fulfilled"]]
    /\ UNCHANGED <<mix, rank, app, pref, feed, api>>

\* a pending fetch fails; a .catch(() => []) turns the failure into []
FetchFail ==
    /\ req.pc = "fetching"
    /\ \E k \in 1..Len(req.fetches) :
         /\ req.fetches[k].state = "pending"
         /\ req' = [req EXCEPT
                      !.fetches[k].failed = TRUE,
                      !.fetches[k].at = NumSettled(req.fetches) + 1,
                      !.fetches[k].state = IF req.fetches[k].caught
                                           THEN "fulfilled" ELSE "rejected"]
    /\ UNCHANGED <<mix, rank, app, pref, feed, api>>

\* Promise.all rejects as soon as one of its promises rejects: the await throws
ReqReject ==
    /\ req.pc = "fetching"
    /\ \E k \in 1..Len(req.fetches) : req.fetches[k].state = "rejected"
    /\ req' = [req EXCEPT !.pc = "rejected"]
    /\ UNCHANGED <<mix, rank, app, pref, feed, api>>

\* every fetch is fulfilled: pool assembly, the two rankVideos calls, mixFeeds
\* at 0.65 and the final slice
ReqJoin ==
    /\ req.pc = "fetching"
    /\ \A k \in 1..Len(req.fetches) : req.fetches[k].state = "fulfilled"
    /\ \E pattern \in JitterPatterns :
         LET variant == VariantOf(req.engine)
             profile == buildUserProfile(variant, req.user)
             context == ScoringContext(req.user)
             uniqueDiscovery == UniqueById(RawPool(req.fetches, "A"))
             uniqueComfort == UniqueById(RawPool(req.fetches, "B"))
             filteredComfort == FilterComfort(uniqueComfort, uniqueDiscovery)
             rankedDiscovery == rankVideos(variant, uniqueDiscovery, profile, context,
                                    "discovery", Draws(pattern, Len(uniqueDiscovery)))
             rankedComfort == rankVideos(variant, filteredComfort, profile, context,
                                  "comfort", Draws(pattern, Len(filteredComfort)))
             finalFeed == mixFeeds(rankedDiscovery, rankedComfort, 13, 20)
         IN  req' = [req EXCEPT
                       !.pc = "resolved",
                       !.uniqueDiscovery = uniqueDiscovery,
                       !.filteredComfort = filteredComfort,
                       !.rankedDiscovery = rankedDiscovery,
                       !.rankedComfort = rankedComfort,
                       !.finalFeed = finalFeed,
                       !.returned = Slice(finalFeed, FEED_LIMIT(req.engine))]
    /\ UNCHANGED <<mix, rank, app, pref, feed, api>>

NextReq == ReqIssue \/ FetchSucceed \/ FetchFail \/ ReqReject \/ ReqJoin

SpecReq == InitReq /\ [][NextReq]_vars

\* the ids a pool's fulfilled fetches returned
FetchedIds(pool) ==
    UNION {Ids(req.fetches[k].value) :
              k \in {j \in 1..Len(req.fetches) : req.fetches[j].pool = pool}}

\* C3: a fetch that failed is settled as fulfilled with an empty list, and the
\* request is never rejected
ReqFetchFailureIsolated ==
    /\ req.pc # "rejected"
    /\ \A k \in 1..Len(req.fetches) :
           req.fetches[k].failed =>
               req.fetches[k].state = "fulfilled" /\ req.fetches[k].value = <<>>

\* C6: after pool assembly each pool holds an id at most once, no id is in both
\* pools, every id a Discovery fetch returned is in Discovery, and Comfort holds
\* the ids its fetches returned that no Discovery fetch returned
ReqPoolsDisjoint ==
    req.pc = "resolved" =>
        /\ DistinctIds(req.uniqueDiscovery)
        /\ DistinctIds(req.filteredComfort)
        /\ Ids(req.uniqueDiscovery) \cap Ids(req.filteredComfort) = {}
        /\ Ids(req.uniqueDiscovery) = FetchedIds("A")
        /\ Ids(req.filteredComfort) = FetchedIds("B") \ FetchedIds("A")

\* C6 witness: a Discovery fetch returned id 1 twice (videos 1 and 3), a Comfort
\* fetch returned it too (video 3); Discovery holds it and Comfort holds the rest
ReqOverlapResolved ==
    /\ req.pc = "resolved"
    /\ \E a, b \in 1..Len(req.fetches) :
          /\ req.fetches[a].pool = "A" /\ req.fetches[a].value = <<1, 2, 3>>
          /\ req.fetches[b].pool = "B" /\ req.fetches[b].value = <<3, 5, 7>>
    /\ VideoId(1) \in Ids(req.uniqueDiscovery)
    /\ Len(req.uniqueDiscovery) = 2
    /\ req.filteredComfort = <<5, 7>>

\* C7: the returned sequence has pairwise distinct ids, at most 150 items in
\* part_001 and 100 in part_002, and is a prefix of the mixed feed
ReqReturnedFeedCapped ==
    req.pc = "resolved" =>
        /\ DistinctIds(req.returned)
        /\ Len(req.returned) <= (IF req.engine = "p1" THEN 150 ELSE 100)
        /\ Len(req.returned) <= Len(req.finalFeed)
        /\ \A k \in 1..Len(req.returned) : req.returned[k] = req.finalFeed[k]

\* C7 witness: part_001 mixed more than 150 videos and returned the first 150
ReqFeedCut ==
    /\ req.pc = "resolved" /\ req.engine = "p1"
    /\ Len(req.finalFeed) > 150
    /\ Len(req.returned) = 150

\* the fetches as issued, without their settlement
Plan(fetches) ==
    [k \in 1..Len(fetches) |->
        [pool |-> fetches[k].pool, call |-> fetches[k].call, terms |-> fetches[k].terms]]

\* the lists a pool's fetches returned, concatenated in the order of issue
InIssueOrder(fetches, pool) ==
    LET mine == {k \in 1..Len(fetches) : fetches[k].pool = pool}
        Nth(p) == CHOOSE k \in mine : Cardinality({j \in mine : j <= k}) = p
    IN  Flat([p \in 1..Cardinality(mine) |-> fetches[Nth(p)].value])

\* C14: the fetches of both pools are issued in one step, all pending, and
\* none is issued later; nothing is ranked or mixed while the request is
\* fetching; the step that ranks finds every fetch settled and assembles the
\* pools from the lists in the order of issue, whatever the order of settlement
ReqJoinsAllFetches ==
    [][/\ req.pc = "start" =>
             /\ req'.pc = "fetching"
             /\ \A k \in 1..Len(req'.fetches) :
                    req'.fetches[k].state = "pending" /\ req'.fetches[k].at = 0
       /\ req.pc = "fetching" =>
             /\ Plan(req'.fetches) = Plan(req.fetches)
             /\ req.rankedDiscovery = <<>> /\ req.rankedComfort = <<>>
             /\ req.finalFeed = <<>>
       /\ (req.pc # "resolved" /\ req'.pc = "resolved") =>
             /\ \A k \in 1..Len(req.fetches) : req.fetches[k].state = "fulfilled"
             /\ req'.fetches = req.fetches
             /\ req'.uniqueDiscovery = UniqueById(InIssueOrder(req.fetches, "A"))
             /\ req'.filteredComfort =
                    FilterComfort(UniqueById(InIssueOrder(req.fetches, "B")),
                                  req'.uniqueDiscovery)]_vars

\* C14 witness: two Discovery fetches returned <<1, 2, 3>> and <<3, 5, 7>>,
\* the second settled before the first, and Discovery is assembled in the
\* order of issue
ReqSettledOutOfOrder ==
    /\ req.pc = "resolved"
    /\ \E j, k \in 1..Len(req.fetches) :
          /\ j < k
          /\ req.fetches[j].pool = "A" /\ req.fetches[k].pool = "A"
          /\ req.fetches[j].value = <<1, 2, 3>> /\ req.fetches[k].value = <<3, 5, 7>>
          /\ req.fetches[j].at > req.fetches[k].at
    /\ req.uniqueDiscovery = <<3, 2, 5, 7>>

\* the number of provider calls the request plans: the same for every random
\* pick and shuffle
PlannedCalls ==
    Len(PlanFetches(req.engine, req.user, req.preferredGenres, req.page, 1,
                    req.user.subscribedChannels))

\* C15: once the fetches are issued no further provider call is made, and a
\* settled fetch is never pending again: the request makes its planned number
\* of calls whichever fetches fail
ReqNeverRetries ==
    [][req.pc # "start" =>
          /\ Len(req.fetches) = PlannedCalls
          /\ Len(req'.fetches) = PlannedCalls
          /\ \A k \in 1..Len(req.fetches) :
                 req.fetches[k].state # "pending" => req'.fetches[k] = req.fetches[k]]_vars

\* C15 witness: of the three fetches of a resolved request one failed and two
\* answered, and the request made three calls
ReqResolvedAfterFailure ==
    /\ req.pc = "resolved"
    /\ Len(req.fetches) = 3
    /\ Cardinality({k \in 1..3 : req.fetches[k].failed}) = 1
    /\ Cardinality({k \in 1..3 : req.fetches[k].value # <<>>}) = 2

\* the fetches of the request with one of the given calls
FetchesCalling(calls) ==
    SelectSeq(req.fetches, LAMBDA f : f.call \in calls)

\* search history, watch history, subscriptions and preferred genres are empty
NoSignals ==
    /\ req.user.searchHistory = <<>> /\ req.user.watchHistory = <<>>
    /\ req.user.subscribedChannels = <<>> /\ req.preferredGenres = <<>>

\* C16: a request without any signal calls the generic recommended listing,
\* on every page
ReqColdUserGetsRecommended ==
    (req.pc # "start" /\ NoSignals) =>
        FetchesCalling({"recommended", "fallback"}) # <<>>

\* the terms of the keyword searches, one list per search, in order of issue
SearchGroups ==
    LET searches == FetchesCalling({"search"})
    IN  [k \in 1..Len(searches) |-> searches[k].terms]

\* no term is in two groups and no group holds a term twice
GroupsDisjoint(groups) ==
    \A j, k \in 1..Len(groups) : \A a \in 1..Len(groups[j]), b \in 1..Len(groups[k]) :
        groups[j][a] = groups[k][b] => (j = k /\ a = b)

\* C17 as claimed: every keyword search is a group of 2 or 3 terms, and no
\* term is in two groups
ReqSearchGroupsOfTwoOrThree ==
    req.pc # "start" =>
        /\ \A k \in 1..Len(SearchGroups) : Len(SearchGroups[k]) \in {2, 3}
        /\ GroupsDisjoint(SearchGroups)

\* C17 amended: every keyword search is a group of at least 1 and at most 3
\* (part_001) or 2 (part_002) terms, every group but the last is full, no term
\* is in two groups, and the groups in order are the request's keywords
ReqSearchGroupsChunked ==
    req.pc # "start" =>
        LET size == IF req.engine = "p1" THEN 3 ELSE 2
            keywords == TopKeywords(req.engine,
                            buildUserProfile(VariantOf(req.engine), req.user),
                            req.preferredGenres)
        IN  /\ \A k \in 1..Len(SearchGroups) :
                   /\ Len(SearchGroups[k]) >= 1 /\ Len(SearchGroups[k]) <= size
                   /\ k < Len(SearchGroups) => Len(SearchGroups[k]) = size
            /\ GroupsDisjoint(SearchGroups)
            /\ Flat(SearchGroups) = keywords

\* C17 witness: part_002 searched three keywords as a group of two and a
\* group of one
ReqShortLastGroup ==
    /\ req.pc = "resolved" /\ req.engine = "p2"
    /\ Len(SearchGroups) = 2
    /\ Len(SearchGroups[1]) = 2 /\ Len(SearchGroups[2]) = 1

\* C18: the Discovery fetches hold exactly one trending search and no
\* recommended listing of the page rule on page 1, and exactly one such
\* recommended listing and no trending search on a later page
ReqPageRule ==
    req.pc # "start" =>
        LET trending == Len(FetchesCalling({"trending"}))
            recommended == Len(FetchesCalling({"recommended"}))
        IN  /\ \A k \in 1..Len(req.fetches) :
                   req.fetches[k].call \in {"trending", "recommended"}
                       => req.fetches[k].pool = "A"
            /\ IF req.page = 1 THEN trending = 1 /\ recommended = 0
               ELSE trending = 0 /\ recommended = 1

(***************************************************************************)
(* SpecMix: mixFeeds on any two lists and ratio                            *)
(***************************************************************************)
ExampleDiscovery == <<1, 2, 4, 5>>

ExampleComfort == <<6, 7>>

InitMix ==
    /\ \/ \E A \in MixLists, B \in MixLists, r \in Ratios :
            mix = MixStart(A, B, r[1], r[2])
       \/ mix = MixStart(ExampleDiscovery, ExampleComfort, 13, 20)
       \/ \E a \in 0..LongMixA, b \in 0..LongMixB :
              mix = MixStart(RankedPool(100, a), RankedPool(200, b), 13, 20)
    /\ rank = RankIdle
    /\ req = ReqIdle
    /\ app = AppIdle
    /\ pref = PrefIdle
    /\ feed = FeedIdle
    /\ api = ApiIdle

NextMix == MixStep \/ MixReturn

SpecMix == InitMix /\ [][NextMix]_vars

\* C1: the sequence mixFeeds builds never holds two items with the same id,
\* whatever ids the two input lists repeat or share
MixNoDuplicateIds == DistinctIds(mix.result)

\* C1 witness: mixFeeds returned after skipping an id repeated inside the
\* Discovery list and shared with the Comfort list
MixSkippedDuplicates ==
    /\ mix.pc = "done"
    /\ mix.discoveryList = <<1, 3, 2>>
    /\ mix.comfortList = <<3, 2>>
    /\ Len(mix.result) = 2

\* C2: mixFeeds drops no item: on return the ids of the output are the ids of
\* both inputs, each once, and the example A,B,C,D / X,Y at 0.65 yields six items
MixNeverDrops ==
    mix.pc = "done" =>
        /\ Ids(mix.result) = Ids(mix.discoveryList) \cup Ids(mix.comfortList)
        /\ Len(mix.result) = Cardinality(Ids(mix.result))
        /\ (mix.discoveryList = ExampleDiscovery /\ mix.comfortList = ExampleComfort
               => Len(mix.result) = 6)

\* C2 witness: the example returned all six items, the last one drained from
\* Comfort after Discovery was exhausted
MixExampleReturned ==
    /\ mix.pc = "done"
    /\ mix.discoveryList = ExampleDiscovery
    /\ mix.comfortList = ExampleComfort
    /\ mix.num = 13 /\ mix.den = 20
    /\ Ids(mix.result) = 1..6
    /\ mix.origin = <<"A", "A", "B", "A", "A", "B">>

\* the number of emitted items that were taken from Discovery
EmittedFromA(m) == Cardinality({k \in 1..Len(m.origin) : m.origin[k] = "A"})

\* the pools as getXraiRecommendations passes them: no id of Comfort is in Discovery
PoolsAsAssembled(m) == Ids(m.discoveryList) \cap Ids(m.comfortList) = {}

DiscoveryAmong(m, n) == Cardinality({k \in 1..n : m.origin[k] = "A"})

\* the least integer a with 20 * a >= 13 * n
CeilOfShare(n) == CHOOSE a \in 0..n : 20 * a >= 13 * n /\ 20 * (a - 1) < 13 * n

\* C25: for inputs with pairwise distinct ids and ratio 13/20, for every n
\* such that both pools had unconsumed items before the n-th emission (hence
\* before every earlier one), the first n emitted items hold exactly
\* ceil(13 * n / 20) Discovery items, at least the share 13/20, and the first
\* emitted item is a Discovery item
MixDiscoveryShare ==
    (/\ mix.pc \in {"loop", "done"} /\ mix.num = 13 /\ mix.den = 20
     /\ DistinctIds(mix.discoveryList \o mix.comfortList)) =>
        \A n \in 1..Len(mix.origin) :
            (/\ DiscoveryAmong(mix, n - 1) < Len(mix.discoveryList)
             /\ (n - 1) - DiscoveryAmong(mix, n - 1) < Len(mix.comfortList))
            => /\ DiscoveryAmong(mix, n) = CeilOfShare(n)
               /\ 20 * DiscoveryAmong(mix, n) >= 13 * n
               /\ mix.origin[1] = "A"

\* C25 witness: 20 items emitted while both pools had items, 13 of them
\* from Discovery, the first seven in the order A A B A A B A
MixTwentyEmitted ==
    /\ mix.pc = "loop" /\ mix.num = 13 /\ mix.den = 20
    /\ Len(mix.origin) = 20
    /\ mix.idxA < Len(mix.discoveryList) /\ mix.idxB < Len(mix.comfortList)
    /\ DiscoveryAmong(mix, 20) = 13
    /\ SubSeq(mix.origin, 1, 7) = <<"A", "A", "B", "A", "A", "B", "A">>

\* the emitted items taken from the given pool, in output order
ItemsFrom(m, pool) ==
    LET at == {k \in 1..Len(m.result) : m.origin[k] = pool}
    IN  [n \in 1..Cardinality(at) |->
            m.result[CHOOSE k \in at : Cardinality({j \in at : j <= k}) = n]]

\* s can be obtained from t by leaving items out
RECURSIVE IsSubsequence(_, _)
IsSubsequence(s, t) ==
    IF s = <<>> THEN TRUE
    ELSE IF t = <<>> THEN FALSE
    ELSE IF Head(s) = Head(t) THEN IsSubsequence(Tail(s), Tail(t))
    ELSE IsSubsequence(s, Tail(t))

\* the list without the items whose id an earlier item has
FirstOfEachId(list) ==
    LET at == {k \in 1..Len(list) : \A j \in 1..(k - 1) : VideoId(list[j]) # VideoId(list[k])}
    IN  [n \in 1..Cardinality(at) |->
            list[CHOOSE k \in at : Cardinality({j \in at : j <= k}) = n]]

\* C26: the emitted Discovery items are in the order of the Discovery input and
\* the emitted Comfort items in the order of the Comfort input, the output is
\* no longer than the two inputs together, and with one input empty the
\* returned list is the other input without the repeats of an id
MixPreservesOrder ==
    (mix.pc \in {"loop", "done"}) =>
        /\ IsSubsequence(ItemsFrom(mix, "A"), mix.discoveryList)
        /\ IsSubsequence(ItemsFrom(mix, "B"), mix.comfortList)
        /\ Len(mix.result) <= Len(mix.discoveryList) + Len(mix.comfortList)
        /\ (mix.pc = "done" /\ mix.comfortList = <<>>)
               => mix.result = FirstOfEachId(mix.discoveryList)
        /\ (mix.pc = "done" /\ mix.discoveryList = <<>>)
               => mix.result = FirstOfEachId(mix.comfortList)

\* C26 witness: the six items of the A, B, C, D / X, Y example came out
\* interleaved, each pool in its own order
MixExampleInterleaved ==
    /\ mix.pc = "done"
    /\ mix.discoveryList = ExampleDiscovery /\ mix.comfortList = ExampleComfort
    /\ ItemsFrom(mix, "A") = ExampleDiscovery /\ ItemsFrom(mix, "B") = ExampleComfort
    /\ mix.origin = <<"A", "A", "B", "A", "A", "B">>

(***************************************************************************)
(* SpecApp: the tokenizer, the profile builder and the upload-age parser   *)
(* applied to bounded inputs                                               *)
(***************************************************************************)
MaxTextLen == 4

\* the characters of the texts: letters of both cases (the stop words "a",
\* "at", "to" among their words), a digit, two separators, two kana
TextChars == {"a", "t", "o", "B", "1", " ", "-", "<no>", "<ka>"}

Texts == UNION {[1..n -> TextChars] : n \in 0..MaxTextLen}

\* tokens.join(' ')
RECURSIVE Join(_)
Join(words) ==
    IF words = <<>> THEN <<>>
    ELSE IF Len(words) = 1 THEN words[1]
    ELSE words[1] \o SP \o Join(Tail(words))

MaxHistory == 2

\* the lists of at most MaxHistory items of a set
ListsOf(S) == UNION {[1..n -> S] : n \in 0..MaxHistory}

\* the signals of a user: search terms, watched videos 1 ("cat dog" of channel
\* "ch"), 6 (no keyword) and 7 ("cat" of channel "dog"), subscribed channels
ProfileSources ==
    {[searchHistory |-> sh, watchHistory |-> wh, subscribedChannels |-> sc] :
        sh \in ListsOf({W_cooking, W_cat, W_dog}),
        wh \in ListsOf({1, 6, 7}),
        sc \in ListsOf({[id |-> 3, name |-> W_cat \o SP \o W_dog],
                        [id |-> 4, name |-> W_pet]})}

ProfileStart(variant, sources) ==
    [fn |-> "buildUserProfile", pc |-> "start", variant |-> variant,
     sources |-> sources, profile |-> [keywords |-> <<>>, magnitudeSq |-> 0]]

\* buildUserProfile(sources)
AppBuildProfile ==
    /\ app.pc = "start" /\ app.fn = "buildUserProfile"
    /\ app' = [app EXCEPT !.pc = "built",
                          !.profile = buildUserProfile(app.variant, app.sources)]
    /\ UNCHANGED <<mix, rank, req, pref, feed, api>>

ExtractStart(variant, text) ==
    [fn |-> "extractKeywords", pc |-> "start", variant |-> variant, text |-> text,
     tokens |-> <<>>, each |-> <<>>, joined |-> <<>>]

\* extractKeywords(text)
AppExtract ==
    /\ app.pc = "start" /\ app.fn = "extractKeywords"
    /\ app' = [app EXCEPT !.pc = "extracted",
                          !.tokens = extractKeywords(app.variant, app.text)]
    /\ UNCHANGED <<mix, rank, req, pref, feed, api>>

\* extractKeywords applied to each returned token and to the tokens joined by blanks
AppReextract ==
    /\ app.pc = "extracted" /\ app.fn = "extractKeywords"
    /\ app' = [app EXCEPT
                 !.pc = "done",
                 !.each = [k \in 1..Len(app.tokens) |->
                              extractKeywords(app.variant, app.tokens[k])],
                 !.joined = extractKeywords(app.variant, Join(app.tokens))]
    /\ UNCHANGED <<mix, rank, req, pref, feed, api>>

\* 30 search terms, the first and the last with a keyword
Search30 ==
    [k \in 1..SEARCH_LIMIT |-> IF k = 1 THEN W_cooking
                               ELSE IF k = SEARCH_LIMIT THEN W_pet ELSE <<"1">>]

\* 100 watched videos, the last ("cat" of channel "dog") with keywords
Watch100 == [k \in 1..WATCH_LIMIT |-> IF k = WATCH_LIMIT THEN 7 ELSE 6]

\* subscription lists of up to 5 channels and reorderings of them
SubscriptionLists ==
    LET a == [id |-> 3, name |-> W_cat \o SP \o W_dog]
        b == [id |-> 4, name |-> W_pet]
    IN  {<<>>, <<a>>, <<a, b>>, <<b, a>>, <<a, b, a, b, a>>, <<b, b, a, a, a>>}

\* histories that are empty, full, or one item longer than the profile reads
LongSources ==
    {[searchHistory |-> sh, watchHistory |-> wh, subscribedChannels |-> sc] :
        sh \in {<<>>, Search30, Search30 \o <<W_cat>>},
        wh \in {<<>>, Watch100, Watch100 \o <<1>>},
        sc \in SubscriptionLists}

CompareStart(variant, sources, other) ==
    [fn |-> "compareProfiles", pc |-> "start", variant |-> variant,
     sources |-> sources, other |-> other,
     profile |-> [keywords |-> <<>>, magnitudeSq |-> 0],
     otherProfile |-> [keywords |-> <<>>, magnitudeSq |-> 0]]

\* buildUserProfile(sources) and buildUserProfile(other)
AppBuildBoth ==
    /\ app.pc = "start" /\ app.fn = "compareProfiles"
    /\ app' = [app EXCEPT !.pc = "built",
                          !.profile = buildUserProfile(app.variant, app.sources),
                          !.otherProfile = buildUserProfile(app.variant, app.other)]
    /\ UNCHANGED <<mix, rank, req, pref, feed, api>>

\* the unit words an upload-age text may contain
UnitWords == {"minute", "hour", "day", "week", "month", "year"}

\* upload-age texts: empty, or a first run of digits (-1: no digit) and the
\* unit words found in the text
AgeInputs ==
    {NoAge} \cup {Age(num, units) : num \in {-1, 0, 3, 48},
                                    units \in {u \in SUBSET UnitWords : Cardinality(u) <= 2}}

ParseStart(variant, text) ==
    [fn |-> "parseUploadedAt", pc |-> "start", variant |-> variant, text |-> text,
     days |-> -1]

\* parseUploadedAtDays(uploadedAt) / parseUploadedAt(uploadedAt)
AppParse ==
    /\ app.pc = "start" /\ app.fn = "parseUploadedAt"
    /\ app' = [app EXCEPT !.pc = "parsed",
                          !.days = parseUploadedAt(app.variant, app.text)]
    /\ UNCHANGED <<mix, rank, req, pref, feed, api>>

InitApp ==
    /\ \/ \E variant \in Variants, text \in Texts : app = ExtractStart(variant, text)
       \/ \E variant \in Variants, text \in AgeInputs : app = ParseStart(variant, text)
       \/ \E variant \in Variants, sources \in ProfileSources :
              app = ProfileStart(variant, sources)
    /\ mix = MixIdle
    /\ rank = RankIdle
    /\ req = ReqIdle
    /\ pref = PrefIdle
    /\ feed = FeedIdle
    /\ api = ApiIdle

NextApp == AppExtract \/ AppReextract \/ AppBuildProfile \/ AppParse

SpecApp == InitApp /\ [][NextApp]_vars

Signals ==
    LET src == app.sources
    IN  {[kind |-> "search", rank |-> k - 1, text |-> src.searchHistory[k]] :
            k \in 1..Len(src.searchHistory)}
        \cup {[kind |-> "title", rank |-> k - 1, text |-> VideoOf(src.watchHistory[k]).title] :
                k \in 1..Len(src.watchHistory)}
        \cup {[kind |-> "channelName", rank |-> k - 1,
               text |-> VideoOf(src.watchHistory[k]).channelName] :
                k \in 1..Len(src.watchHistory)}
        \cup {[kind |-> "subscription", rank |-> 0, text |-> src.subscribedChannels[k].name] :
                k \in 1..Len(src.subscribedChannels)}

\* the token is contributed by exactly one signal, of that kind and at rank 0
OnlyFrom(token, kinds) ==
    LET having == {g \in Signals : token \in Range(extractKeywords(app.variant, g.text))}
        twice == \E j, k \in 1..Len(app.sources.subscribedChannels) :
                     /\ j # k
                     /\ app.sources.subscribedChannels[j].name
                            = app.sources.subscribedChannels[k].name
    IN  /\ Cardinality(having) = 1
        /\ \A g \in having : g.kind \in kinds /\ g.rank = 0
        /\ ~("subscription" \in kinds /\ twice)

\* C12: of tokens contributed by exactly one signal at rank 0, one from the
\* most recent search term weighs strictly more than one from the most recent
\* watched video (title or channel name), which weighs strictly more than one
\* from a subscribed channel; searchHistory = ["cooking"] alone gives "cooking"
\* a weight between 8 and 10
ProfileSignalPriority ==
    (app.pc = "built" /\ app.fn = "buildUserProfile") =>
        LET kw == app.profile.keywords
            Weight(t) == MapGet(kw, t)
        IN  /\ \A a, b \in ProfileKeys(app.profile) :
                  /\ (OnlyFrom(a, {"search"}) /\ OnlyFrom(b, {"title", "channelName"}))
                         => Weight(a) > Weight(b)
                  /\ (OnlyFrom(a, {"title", "channelName"}) /\ OnlyFrom(b, {"subscription"}))
                         => Weight(a) > Weight(b)
            /\ (/\ app.sources.searchHistory = <<W_cooking>>
                /\ app.sources.watchHistory = <<>>
                /\ app.sources.subscribedChannels = <<>>)
               => /\ MapHas(kw, W_cooking)
                  /\ Weight(W_cooking) >= 800 /\ Weight(W_cooking) <= 1000

\* C12 witness: "cooking" searched, video 7 ("cat" of channel "dog") watched
\* and "pet" subscribed, each token from one signal, in strictly falling order
ProfileOrdered ==
    /\ app.pc = "built" /\ app.fn = "buildUserProfile"
    /\ app.sources.searchHistory = <<W_cooking>>
    /\ app.sources.watchHistory = <<7>>
    /\ Len(app.sources.subscribedChannels) = 1
    /\ OnlyFrom(W_cooking, {"search"}) /\ OnlyFrom(W_dog, {"channelName"})
    /\ OnlyFrom(W_cat, {"title"}) /\ OnlyFrom(W_pet, {"subscription"})
    /\ MapGet(app.profile.keywords, W_cooking) > MapGet(app.profile.keywords, W_dog)
    /\ MapGet(app.profile.keywords, W_dog) > MapGet(app.profile.keywords, W_cat)
    /\ MapGet(app.profile.keywords, W_cat) > MapGet(app.profile.keywords, W_pet)

\* C20: an upload-age text that is empty, has no unit word, or has a unit word
\* but no digit parses to the "old" sentinel (365 days in part_004, 999 in
\* xrai.ts)
ParseUnreadableIsOld ==
    (app.pc = "parsed" /\ app.fn = "parseUploadedAt") =>
        ((app.text.empty \/ app.text.units = {} \/ app.text.num < 0)
            => app.days = OldSentinel(app.variant))

(***************************************************************************)
(* SpecLong: the profile builder on histories longer than it reads         *)
(***************************************************************************)
InitLong ==
    /\ \E variant \in Variants, sources \in LongSources, other \in LongSources :
           /\ Len(other.subscribedChannels) = Len(sources.subscribedChannels)
           /\ app = CompareStart(variant, sources, other)
    /\ mix = MixIdle
    /\ rank = RankIdle
    /\ req = ReqIdle
    /\ pref = PrefIdle
    /\ feed = FeedIdle
    /\ api = ApiIdle

NextLong == AppBuildBoth

SpecLong == InitLong /\ [][NextLong]_vars

\* the entries of a profile as a set: its keys with their weights
ProfileEntries(profile) == Range(profile.keywords)

\* the two lists hold the same items the same number of times
IsPermutation(a, b) ==
    /\ Len(a) = Len(b)
    /\ \A x \in Range(a) \cup Range(b) :
           Cardinality({k \in 1..Len(a) : a[k] = x}) = Cardinality({k \in 1..Len(b) : b[k] = x})

\* the number of subscribed channels whose name holds the token
ChannelsNaming(variant, channels, token) ==
    Cardinality({k \in 1..Len(channels) :
                    token \in Range(extractKeywords(variant, channels[k].name))})

MaxPrefOps == 4

\* the videos a user hides: 1 and 2 ("cat dog" of channel "ch", ids 1 and 2)
\* and 7 ("cat" of channel "dog")
PrefRefs == {1, 2, 7}

\* the lists removeNegativeProfileForVideos is called with
RemoveLists == {<<>>, <<1>>, <<7>>, <<1, 2>>, <<7, 7>>}

\* [...extractKeywords(video.title), ...extractKeywords(video.channelName)]
VideoKeywords(ref) ==
    extractKeywords("overlap", VideoOf(ref).title)
        \o extractKeywords("overlap", VideoOf(ref).channelName)

\* newMap.set(k, (newMap.get(k) || 0) + 1) for each keyword
RECURSIVE IncrementAll(_, _)
IncrementAll(map, keywords) ==
    IF keywords = <<>> THEN map
    ELSE IncrementAll(MapAdd(map, Head(keywords), 1), Tail(keywords))

\* mutant: the count of a present keyword is decremented without the test
\* currentWeight <= 1
Decrement_NoDelete(map, keyword) ==
    IF MapHas(map, keyword)
    THEN [k \in 1..Len(map) |->
             IF map[k].key = keyword THEN [key |-> keyword, val |-> map[k].val - 1]
             ELSE map[k]]
    ELSE map

\* if (newMap.has(keyword)) { if (currentWeight <= 1) delete else set(currentWeight - 1) }
Decrement(map, keyword) ==
    IF MapHas(map, keyword)
    THEN IF MapGet(map, keyword) <= 1
         THEN SelectSeq(map, LAMBDA e : e.key # keyword)
         ELSE [k \in 1..Len(map) |->
                  IF map[k].key = keyword THEN [key |-> keyword, val |-> map[k].val - 1]
                  ELSE map[k]]
    ELSE map

RECURSIVE DecrementAll(_, _)
DecrementAll(map, keywords) ==
    IF keywords = <<>> THEN map
    ELSE DecrementAll(Decrement(map, Head(keywords)), Tail(keywords))

\* videos.flatMap(v => [...extractKeywords(v.title), ...extractKeywords(v.channelName)])
RECURSIVE FlatKeywords(_)
FlatKeywords(videos) ==
    IF videos = <<>> THEN <<>>
    ELSE VideoKeywords(Head(videos)) \o FlatKeywords(Tail(videos))

\* the store after construction with an empty localStorage; rendered is the
\* hiddenVideos value the handlers of the current render closed over, before
\* the negativeKeywords value ahead of the last call
PrefStart ==
    [pc |-> "ready", hiddenVideos |-> <<>>, negativeKeywords |-> <<>>,
     rendered |-> <<>>, ops |-> 0, last |-> [op |-> "none", arg |-> <<>>],
     before |-> <<>>]

\* a re-render: the handlers close over the committed hiddenVideos
PrefRender ==
    /\ pref.pc = "ready"
    /\ pref.rendered # pref.hiddenVideos
    /\ pref' = [pref EXCEPT !.rendered = pref.hiddenVideos]
    /\ UNCHANGED <<mix, rank, req, app, feed, api>>

addHiddenVideo(video) ==
    /\ pref.pc = "ready" /\ pref.ops < MaxPrefOps
    /\ pref' = [pref EXCEPT
                  !.hiddenVideos =
                      IF VideoId(video) \in Ids(pref.rendered) THEN @ ELSE Append(@, video),
                  !.negativeKeywords = IncrementAll(@, VideoKeywords(video)),
                  !.ops = @ + 1,
                  !.last = [op |-> "addHiddenVideo", arg |-> <<video>>],
                  !.before = pref.negativeKeywords]
    /\ UNCHANGED <<mix, rank, req, app, feed, api>>

unhideVideo(videoId) ==
    /\ pref.pc = "ready" /\ pref.ops < MaxPrefOps
    /\ LET found == SelectSeq(pref.rendered, LAMBDA v : VideoId(v) = videoId)
       IN  IF found = <<>>
           THEN pref' = [pref EXCEPT !.ops = @ + 1,
                                     !.last = [op |-> "unhideVideo", arg |-> <<>>],
                                     !.before = pref.negativeKeywords]
           ELSE pref' = [pref EXCEPT
                           !.hiddenVideos = SelectSeq(@, LAMBDA v : VideoId(v) # videoId),
                           !.negativeKeywords = DecrementAll(@, VideoKeywords(found[1])),
                           !.ops = @ + 1,
                           !.last = [op |-> "unhideVideo", arg |-> <<found[1]>>],
                           !.before = pref.negativeKeywords]
    /\ UNCHANGED <<mix, rank, req, app, feed, api>>

removeNegativeProfileForVideos(videos) ==
    /\ pref.pc = "ready" /\ pref.ops < MaxPrefOps
    /\ IF videos = <<>>
       THEN pref' = [pref EXCEPT !.ops = @ + 1,
                                 !.last = [op |-> "removeNegativeProfileForVideos", arg |-> <<>>],
                                 !.before = pref.negativeKeywords]
       ELSE pref' = [pref EXCEPT
                       !.hiddenVideos = SelectSeq(@, LAMBDA v : VideoId(v) \notin Ids(videos)),
                       !.negativeKeywords = DecrementAll(@, FlatKeywords(videos)),
                       !.ops = @ + 1,
                       !.last = [op |-> "removeNegativeProfileForVideos", arg |-> videos],
                       !.before = pref.negativeKeywords]
    /\ UNCHANGED <<mix, rank, req, app, feed, api>>

InitPref ==
    /\ pref = PrefStart
    /\ mix = MixIdle
    /\ rank = RankIdle
    /\ req = ReqIdle
    /\ app = AppIdle
    /\ feed = FeedIdle
    /\ api = ApiIdle

NextPref ==
    \/ PrefRender
    \/ \E video \in PrefRefs : addHiddenVideo(video)
    \/ \E video \in PrefRefs : unhideVideo(VideoId(video))
    \/ \E videos \in RemoveLists : removeNegativeProfileForVideos(videos)

SpecPref == InitPref /\ [][NextPref]_vars

\* the keys of a Map
MapKeys(map) == {map[k].key : k \in 1..Len(map)}

\* C23: every count stored in negativeKeywords is at least 1, and a call that
\* decrements leaves every keyword that was absent absent and every count of
\* a keyword it does not decrement as it was
PrefCountsAtLeastOne ==
    (pref.pc = "ready") =>
        /\ \A k \in 1..Len(pref.negativeKeywords) : pref.negativeKeywords[k].val >= 1
        /\ (pref.last.op \in {"unhideVideo", "removeNegativeProfileForVideos"}) =>
               /\ MapKeys(pref.negativeKeywords) \subseteq MapKeys(pref.before)
               /\ (Range(FlatKeywords(pref.last.arg)) \cap MapKeys(pref.before) = {})
                      => pref.negativeKeywords = pref.before

\* C23 witness: an unhide took "cat" from 2 to 1 and removed "dog", which stood at 1
PrefDecrementedToFloor ==
    /\ pref.pc = "ready" /\ pref.last.op = "unhideVideo"
    /\ MapHas(pref.before, W_cat) /\ MapGet(pref.before, W_cat) = 2
    /\ MapHas(pref.before, W_ch) /\ MapGet(pref.before, W_ch) = 1
    /\ MapHas(pref.negativeKeywords, W_cat) /\ MapGet(pref.negativeKeywords, W_cat) = 1
    /\ ~MapHas(pref.negativeKeywords, W_ch)

\* the number of positions of the list that hold the item
Occurrences(list, x) == Cardinality({k \in 1..Len(list) : list[k] = x})

\* C27: the count stored for each keyword is the number of its occurrences in
\* the title-keyword and channel-keyword lists of the videos in hiddenVideos,
\* and hiddenVideos holds each id at most once
PrefCountsMatchHidden ==
    (pref.pc = "ready") =>
        LET hiddenKeywords == FlatKeywords(pref.hiddenVideos)
        IN  /\ \A k \in 1..Len(pref.negativeKeywords) :
                   pref.negativeKeywords[k].val
                       = Occurrences(hiddenKeywords, pref.negativeKeywords[k].key)
            /\ Range(hiddenKeywords) \subseteq MapKeys(pref.negativeKeywords)
            /\ DistinctIds(pref.hiddenVideos)

(***************************************************************************)
(* SpecFeed: getXraiRecommendations and getXraiShorts of                   *)
(* utils/recommendation.ts (part_000 is the same getXraiRecommendations)   *)
(***************************************************************************)
W_shorts == <<"#", "s", "h", "o", "r", "t", "s">>

\* an ISO duration by what the regular expression reads of it: whether the
\* string is non-empty, whether it holds "PT", and the H, M, S groups (-1: absent)
Iso(h, m, s) == [given |-> TRUE, matched |-> TRUE, h |-> h, m |-> m, s |-> s]

NoIso == [given |-> FALSE, matched |-> FALSE, h |-> -1, m |-> -1, s |-> -1]

\* NaN, the result of parseInt on a part that does not start with a digit
NaN == -1

\* const parseDuration = (iso, text); text is the list of its parseInt'ed
\* parts between colons, the empty list for the empty string
parseDuration(iso, text) ==
    LET Group(g) == IF g < 0 THEN 0 ELSE g
    IN  IF iso.given /\ iso.matched
        THEN Group(iso.h) * 3600 + Group(iso.m) * 60 + Group(iso.s)
        ELSE IF text # <<>> /\ Len(text) <= 3
        THEN IF \E k \in 1..Len(text) : text[k] = NaN THEN NaN
             ELSE IF Len(text) = 3 THEN text[1] * 3600 + text[2] * 60 + text[3]
             ELSE IF Len(text) = 2 THEN text[1] * 60 + text[2]
             ELSE text[1]
        ELSE 0

FeedBase == [id |-> 1, channelId |-> 1, channelName |-> W_ch, title |-> W_cat \o SP \o W_dog,
             isoDuration |-> Iso(-1, -1, 30), duration |-> <<0, 30>>]

\* 1: a 30 second video; 2: a second object of id 1; 3: "Bad cat"; 4: of
\* channel 2; 5: "dog" with the duration text "LIVE"; 6: five minutes long with
\* "#Shorts" in the title; 7: "pet" of channel "pet", 45 seconds by its text;
\* 8: "PT" without groups and the text "0:30"
FeedHeap == <<
    FeedBase,
    FeedBase,
    [FeedBase EXCEPT !.id = 2, !.title = <<"B", "a", "d">> \o SP \o W_cat],
    [FeedBase EXCEPT !.id = 3, !.channelId = 2],
    [FeedBase EXCEPT !.id = 4, !.title = W_dog, !.isoDuration = NoIso, !.duration = <<NaN>>],
    [FeedBase EXCEPT !.id = 5, !.channelId = 3,
                     !.title = W_cat \o SP \o <<"#", "S", "h", "o", "r", "t", "s">>,
                     !.isoDuration = Iso(-1, 5, -1)],
    [FeedBase EXCEPT !.id = 6, !.channelId = 3, !.title = W_pet, !.channelName = W_pet,
                     !.isoDuration = NoIso, !.duration = <<0, 45>>],
    [FeedBase EXCEPT !.id = 7, !.channelId = 3, !.title = W_cooking,
                     !.isoDuration = Iso(-1, -1, -1)] >>

FeedVideo(ref) == FeedHeap[ref]

FeedIds(list) == {FeedVideo(list[k]).id : k \in 1..Len(list)}

\* the sources of a request: one watched video or none, one subscription or
\* none, the NG keyword "bAd" or none, the NG channel 2 or none, the video of
\* id 1 hidden or none, and a negative-keyword map or none
FeedSources ==
    {[watchHistory |-> wh, subscribedChannels |-> sc, ngKeywords |-> nk, ngChannels |-> nc,
      hiddenVideos |-> hv, negativeKeywords |-> neg] :
        wh \in {<<>>, <<1>>},
        sc \in {<<>>, <<[id |-> 3, name |-> W_cat \o SP \o W_dog]>>},
        nk \in {<<>>, << <<"b", "A", "d">> >>},
        nc \in {<<>>, <<[id |-> 2]>>},
        hv \in {<<>>, <<[id |-> 1]>>},
        neg \in {<<>>, <<[key |-> W_cat, val |-> 1], [key |-> W_dog, val |-> 1],
                         [key |-> W_pet, val |-> 2]>>}}

\* the lists a search answers with
FeedResponses == {<<1, 3, 4, 6>>, <<7, 5, 2, 8>>}

\* the lists the recommended listing answers with
TrendingResponses == {<<>>, <<5, 7, 3, 6>>}

\* the seeds of getXraiRecommendations: their number
RecommendationSeeds(sources) ==
    IF Len(sources.watchHistory) > 0 THEN Min(Len(sources.watchHistory), 10)
    ELSE IF Len(sources.subscribedChannels) > 0 THEN Min(Len(sources.subscribedChannels), 5)
    ELSE 5

\* the seeds of getXraiShorts after seeds.slice(0, 10): their number
ShortsSeeds(sources) ==
    LET n == Min(Len(sources.watchHistory), 8) + Min(Len(sources.subscribedChannels), 5)
    IN  IF n = 0 THEN 5 ELSE Min(n, 10)

FeedFetch(call) == [call |-> call, state |-> "pending", value |-> <<>>]

\* the promises of a request, in the order of Promise.all
FeedPlan(fn, sources) ==
    IF fn = "getXraiRecommendations"
    THEN [k \in 1..(RecommendationSeeds(sources) + 1) |->
             IF k <= RecommendationSeeds(sources) THEN FeedFetch("search")
             ELSE FeedFetch("recommended")]
    ELSE [k \in 1..ShortsSeeds(sources) |-> FeedFetch("search")]

\* outcomes of shuffleArray that the model follows: the list as it is and reversed
ShuffleOutcomes(list) ==
    {list, [k \in 1..Len(list) |-> list[Len(list) + 1 - k]]}

\* mutant: the set of seen ids starts empty
DedupeUnseen_NoHidden(candidates, hiddenIds) ==
    LET at == {k \in 1..Len(candidates) :
                  \A j \in 1..(k - 1) :
                      FeedVideo(candidates[j]).id # FeedVideo(candidates[k]).id}
    IN  [n \in 1..Cardinality(at) |->
            candidates[CHOOSE k \in at : Cardinality({j \in at : j <= k}) = n]]

\* seenIds = new Set(hiddenVideoIdsSet); candidates.filter(v => !seenIds.has(v.id) && add)
DedupeUnseen(candidates, hiddenIds) ==
    LET at == {k \in 1..Len(candidates) :
                  /\ FeedVideo(candidates[k]).id \notin hiddenIds
                  /\ \A j \in 1..(k - 1) :
                         FeedVideo(candidates[j]).id # FeedVideo(candidates[k]).id}
    IN  [n \in 1..Cardinality(at) |->
            candidates[CHOOSE k \in at : Cardinality({j \in at : j <= k}) = n]]

\* [...extractKeywords(v.title), ...extractKeywords(v.channelName)]
FeedKeywords(video) ==
    extractKeywords("overlap", video.title) \o extractKeywords("overlap", video.channelName)

\* the keywords of the first 50 watched videos and of the subscribed channels
historyKeywords(sources) ==
    LET watched == Slice(sources.watchHistory, 50)
    IN  UNION {Range(FeedKeywords(FeedVideo(watched[k]))) : k \in 1..Len(watched)}
        \cup UNION {Range(extractKeywords("overlap", sources.subscribedChannels[k].name)) :
                       k \in 1..Len(sources.subscribedChannels)}

\* `${v.title} ${v.channelName}`.toLowerCase()
FeedFullText(video) == toLowerCase(video.title \o SP \o video.channelName)

RECURSIVE negativeScore(_, _)
negativeScore(negativeKeywords, keywords) ==
    IF keywords = <<>> THEN 0
    ELSE (IF MapHas(negativeKeywords, Head(keywords))
          THEN MapGet(negativeKeywords, Head(keywords)) ELSE 0)
         + negativeScore(negativeKeywords, Tail(keywords))

\* the last filter of getXraiRecommendations
PassesPreferences(video, sources) ==
    /\ ~\E k \in 1..Len(sources.ngKeywords) :
           StrIncludes(FeedFullText(video), toLowerCase(sources.ngKeywords[k]))
    /\ ~\E k \in 1..Len(sources.ngChannels) : sources.ngChannels[k].id = video.channelId
    /\ ~(negativeScore(sources.negativeKeywords, FeedKeywords(video)) > 2)

\* getXraiRecommendations from the settled promises to the list handed to the
\* last shuffleArray
RecommendationCandidates(sources, searched, trendingVideos, selectedTrending) ==
    LET hiddenIds == {sources.hiddenVideos[k].id : k \in 1..Len(sources.hiddenVideos)}
        unique == DedupeUnseen(searched \o selectedTrending, hiddenIds)
        IsRelevant(ref) ==
            \/ Range(FeedKeywords(FeedVideo(ref))) \cap historyKeywords(sources) # {}
            \/ FeedVideo(ref).id \in FeedIds(trendingVideos)
        relevant == IF Len(sources.watchHistory) > 0 THEN SelectSeq(unique, IsRelevant)
                    ELSE unique
    IN  SelectSeq(relevant, LAMBDA ref : PassesPreferences(FeedVideo(ref), sources))

\* (sec > 0 && sec <= 60) || v.title.toLowerCase().includes('#shorts')
isShort(video) ==
    LET sec == parseDuration(video.isoDuration, video.duration)
    IN  (sec > 0 /\ sec <= 60) \/ StrIncludes(toLowerCase(video.title), W_shorts)

\* the filter of getXraiShorts: the candidates from position k on, seenIds as given
RECURSIVE ShortsFilter(_, _, _, _)
ShortsFilter(candidates, k, seenIds, sources) ==
    IF k > Len(candidates) THEN <<>>
    ELSE LET v == FeedVideo(candidates[k])
             keep == /\ v.id \notin seenIds
                     /\ isShort(v)
                     /\ ~\E n \in 1..Len(sources.ngChannels) : sources.ngChannels[n].id = v.channelId
         IN  IF keep
             THEN <<candidates[k]>> \o ShortsFilter(candidates, k + 1, seenIds \cup {v.id}, sources)
             ELSE ShortsFilter(candidates, k + 1, seenIds, sources)

ShortsCandidates(sources, searched) ==
    ShortsFilter(searched, 1, {sources.hiddenVideos[k].id : k \in 1..Len(sources.hiddenVideos)},
                 sources)

FeedFunctions == {"getXraiRecommendations", "getXraiShorts"}

\* a request up to its await; given is the sources object as the caller passed it
FeedStart(fn, sources) ==
    [pc |-> "await", fn |-> fn, sources |-> sources, given |-> sources,
     fetches |-> FeedPlan(fn, sources), returned |-> <<>>]

FirstPending(fetches) ==
    CHOOSE k \in 1..Len(fetches) :
        /\ fetches[k].state = "pending"
        /\ \A j \in 1..(k - 1) : fetches[j].state # "pending"

\* a promise resolves with the videos of the answer
FeedFulfil ==
    /\ feed.pc = "await"
    /\ \E k \in 1..Len(feed.fetches) : feed.fetches[k].state = "pending"
    /\ LET k == FirstPending(feed.fetches)
       IN  \E videos \in (IF feed.fetches[k].call = "search" THEN FeedResponses
                          ELSE TrendingResponses) :
               feed' = [feed EXCEPT !.fetches[k].state = "fulfilled",
                                    !.fetches[k].value = videos]
    /\ UNCHANGED <<mix, rank, req, app, pref, api>>

\* a call fails: .catch(() => []) resolves the promise with the empty list
FeedReject ==
    /\ feed.pc = "await"
    /\ \E k \in 1..Len(feed.fetches) : feed.fetches[k].state = "pending"
    /\ LET k == FirstPending(feed.fetches)
       IN  feed' = [feed EXCEPT !.fetches[k].state = "rejected", !.fetches[k].value = <<>>]
    /\ UNCHANGED <<mix, rank, req, app, pref, api>>

\* the continuation after the await, up to the return
FeedReturn ==
    /\ feed.pc = "await"
    /\ \A k \in 1..Len(feed.fetches) : feed.fetches[k].state # "pending"
    /\ LET searches == SelectSeq(feed.fetches, LAMBDA f : f.call = "search")
           searched == Flat([k \in 1..Len(searches) |-> searches[k].value])
       IN  IF feed.fn = "getXraiRecommendations"
           THEN LET trendingVideos == feed.fetches[Len(feed.fetches)].value
                IN  \E shuffled \in ShuffleOutcomes(trendingVideos) :
                        \E out \in ShuffleOutcomes(
                                       RecommendationCandidates(feed.sources, searched,
                                           trendingVideos, Slice(shuffled, 3))) :
                            feed' = [feed EXCEPT !.pc = "done", !.returned = out]
           ELSE \E out \in ShuffleOutcomes(ShortsCandidates(feed.sources, searched)) :
                    feed' = [feed EXCEPT !.pc = "done", !.returned = out]
    /\ UNCHANGED <<mix, rank, req, app, pref, api>>

InitFeed ==
    /\ \E fn \in FeedFunctions, sources \in FeedSources : feed = FeedStart(fn, sources)
    /\ mix = MixIdle
    /\ rank = RankIdle
    /\ req = ReqIdle
    /\ app = AppIdle
    /\ pref = PrefIdle
    /\ api = ApiIdle

NextFeed == FeedFulfil \/ FeedReject \/ FeedReturn

SpecFeed == InitFeed /\ [][NextFeed]_vars

\* C28: getXraiShorts returns no video whose lower-cased title or channel name
\* contains a lower-cased NG keyword, none of an NG channel, no hidden video,
\* no id twice, and only shorts
FeedShortsRespectPreferences ==
    (feed.pc = "done" /\ feed.fn = "getXraiShorts") =>
        /\ \A n \in 1..Len(feed.returned) :
               LET v == FeedVideo(feed.returned[n])
               IN  /\ \A k \in 1..Len(feed.sources.ngKeywords) :
                          /\ ~StrIncludes(toLowerCase(v.title),
                                          toLowerCase(feed.sources.ngKeywords[k]))
                          /\ ~StrIncludes(toLowerCase(v.channelName),
                                          toLowerCase(feed.sources.ngKeywords[k]))
                   /\ \A k \in 1..Len(feed.sources.ngChannels) :
                          feed.sources.ngChannels[k].id # v.channelId
                   /\ \A k \in 1..Len(feed.sources.hiddenVideos) :
                          feed.sources.hiddenVideos[k].id # v.id
                   /\ isShort(v)
        /\ \A j, k \in 1..Len(feed.returned) :
               j # k => FeedVideo(feed.returned[j]).id # FeedVideo(feed.returned[k]).id

\* C29: whichever fetches failed, getXraiRecommendations returns no hidden
\* video, no id twice and no video whose keywords' suppression counts sum to
\* more than 2, and the sources are as the caller passed them
FeedRespectsHiddenAndSuppressed ==
    (feed.fn = "getXraiRecommendations" /\ feed.pc \in {"await", "done"}) =>
        /\ feed.sources = feed.given
        /\ \A n \in 1..Len(feed.returned) :
               LET v == FeedVideo(feed.returned[n])
               IN  /\ \A k \in 1..Len(feed.sources.hiddenVideos) :
                          feed.sources.hiddenVideos[k].id # v.id
                   /\ negativeScore(feed.sources.negativeKeywords, FeedKeywords(v)) <= 2
        /\ \A j, k \in 1..Len(feed.returned) :
               j # k => FeedVideo(feed.returned[j]).id # FeedVideo(feed.returned[k]).id

\* C29 witness: one fetch failed and a search succeeded with the hidden video
\* of id 1 (ref 2) and "pet" of channel "pet" (ref 7, suppression 4) among its
\* results; the feed returned holds "dog" (ref 5, suppression 1) and neither
\* of the two
FeedFilteredAfterFailure ==
    /\ feed.fn = "getXraiRecommendations" /\ feed.pc = "done"
    /\ \E k \in 1..Len(feed.fetches) : feed.fetches[k].state = "rejected"
    /\ \E k \in 1..Len(feed.fetches) :
           /\ feed.fetches[k].state = "fulfilled"
           /\ feed.fetches[k].value = <<7, 5, 2, 8>>
    /\ Len(feed.sources.hiddenVideos) = 1
    /\ Len(feed.sources.negativeKeywords) = 3
    /\ 7 \notin Range(feed.returned) /\ 2 \notin Range(feed.returned)
    /\ 5 \in Range(feed.returned)

(***************************************************************************)
(* SpecApi: the related-video aggregation of the /api/video handler        *)
(* (api/index.js)                                                          *)
(***************************************************************************)
MAX_VIDEOS == 50

MAX_CONTINUATIONS == 5

\* a feed item: v.id || v.videoId (0: neither), and whether it has the type
\* CompactVideo or Video or a title
Item(vid) == [vid |-> vid, video |-> TRUE]

\* the items with the ids from .. to
Items(from, to) == [k \in 1..(to - from + 1) |-> Item(from + k - 1)]

\* info.watch_next_feed: absent, short with a repeated id and an item without
\* id, one below MAX_VIDEOS, one above
PrimaryFeeds == {<<>>, <<Item(1), Item(2), Item(2), Item(0)>>,
                 Items(1, MAX_VIDEOS - 1), Items(1, MAX_VIDEOS + 1)}

\* info.secondary_info?.watch_next_feed
SecondaryFeeds == {<<>>, Items(2, 4)}

\* the ids of the aggregated list
ApiIds(list) == {list[k].vid : k \in 1..Len(list)}

\* relatedVideos.filter(v => vid && !seenIds.has(vid) && seenIds.add(vid))
ApiInitialFilter(list) ==
    LET at == {k \in 1..Len(list) :
                  /\ list[k].vid # 0
                  /\ \A j \in 1..(k - 1) : list[j].vid # list[k].vid}
    IN  [n \in 1..Cardinality(at) |->
            list[CHOOSE k \in at : Cardinality({j \in at : j <= k}) = n]]

\* the for loop over newItems
RECURSIVE ApiAddItems(_, _, _)
ApiAddItems(relatedVideos, newItems, k) ==
    IF k > Len(newItems) \/ Len(relatedVideos) >= MAX_VIDEOS THEN relatedVideos
    ELSE LET item == newItems[k]
         IN  IF item.vid # 0 /\ item.vid \notin ApiIds(relatedVideos) /\ item.video
             THEN ApiAddItems(Append(relatedVideos, item), newItems, k + 1)
             ELSE ApiAddItems(relatedVideos, newItems, k + 1)

\* the batches a continuation answers with after the given list: empty, only
\* known or unusable items, one new video, twelve new videos after a known one
Batches(relatedVideos) ==
    LET top == IF relatedVideos = <<>> THEN 0
               ELSE CHOOSE m \in ApiIds(relatedVideos) : \A x \in ApiIds(relatedVideos) : x <= m
    IN  {<<>>,
         <<Item(top), Item(0), [vid |-> top + 1, video |-> FALSE]>>,
         <<Item(top + 1)>>,
         <<Item(top)>> \o Items(top + 1, top + 12)}

\* the handler after getInfo, at the head of the while loop; seenIds is the
\* set of ids of relatedVideos, calls counts getWatchNextContinuation calls
ApiStart(primary, secondary) ==
    [pc |-> "loop", relatedVideos |-> ApiInitialFilter(primary \o secondary),
     continuationCount |-> 0, calls |-> 0]

\* one iteration of the while loop whose continuation answers with a batch
ApiContinue ==
    /\ api.pc = "loop"
    /\ Len(api.relatedVideos) < MAX_VIDEOS /\ api.continuationCount < MAX_CONTINUATIONS
    /\ \E newItems \in Batches(api.relatedVideos) :
           LET added == ApiAddItems(api.relatedVideos, newItems, 1)
           IN  IF newItems = <<>> \/ Len(added) = Len(api.relatedVideos)
               THEN api' = [api EXCEPT !.pc = "done", !.calls = @ + 1]
               ELSE api' = [api EXCEPT !.relatedVideos = added, !.calls = @ + 1,
                                       !.continuationCount = @ + 1]
    /\ UNCHANGED <<mix, rank, req, app, pref, feed>>

\* one iteration whose continuation is missing (!nextInfo) or throws
ApiContinuationEnds ==
    /\ api.pc = "loop"
    /\ Len(api.relatedVideos) < MAX_VIDEOS /\ api.continuationCount < MAX_CONTINUATIONS
    /\ api' = [api EXCEPT !.pc = "done", !.calls = @ + 1]
    /\ UNCHANGED <<mix, rank, req, app, pref, feed>>

\* the loop condition fails: the response is sent
ApiRespond ==
    /\ api.pc = "loop"
    /\ ~(Len(api.relatedVideos) < MAX_VIDEOS /\ api.continuationCount < MAX_CONTINUATIONS)
    /\ api' = [api EXCEPT !.pc = "done"]
    /\ UNCHANGED <<mix, rank, req, app, pref, feed>>

InitApi ==
    /\ \E primary \in PrimaryFeeds, secondary \in SecondaryFeeds :
           api = ApiStart(primary, secondary)
    /\ mix = MixIdle
    /\ rank = RankIdle
    /\ req = ReqIdle
    /\ app = AppIdle
    /\ pref = PrefIdle
    /\ feed = FeedIdle

NextApi == ApiContinue \/ ApiContinuationEnds \/ ApiRespond

SpecApi == InitApi /\ [][NextApi]_vars

\* C30: the loop makes at most 5 continuation fetches, and the aggregated
\* list holds no video id twice and at most 50 entries
ApiAggregationBounded ==
    (api.pc \in {"loop", "done"}) =>
        /\ api.calls <= 5
        /\ \A j, k \in 1..Len(api.relatedVideos) :
               j # k => api.relatedVideos[j].vid # api.relatedVideos[k].vid
        /\ Len(api.relatedVideos) <= 50

====
